---- MODULE Spec2Model ----
(***************************************************************************)
(* Model of the tech-docs-assistant backend: the document index, the       *)
(* hybrid search of opensearchService.searchDocuments with its keyword     *)
(* fallback, and the /search and /ask request handlers with the RAG        *)
(* response generation of claudeService.                                   *)
(*                                                                         *)
(* Numbers.  Scores are reals in the source; here every score is an        *)
(* integer count of thousandths (1.0 is 1000), and the documents' and      *)
(* queries' raw signals are drawn so that every product in the code is     *)
(* exact.                                                                  *)
(***************************************************************************)
EXTENDS Integers, Sequences, FiniteSets, TLC

(***************************************************************************)
(* Bounds of the model.                                                    *)
(***************************************************************************)
NumDocs == 3        \* document ids 1..NumDocs
NumQueries == 4     \* query texts 1..NumQueries
MaxLimit == 2       \* sizes 1..MaxLimit for a direct searchDocuments call
NumChunks == 2      \* documents 1..NumChunks of a fusion on given signals
MaxEmbedLen == 2    \* texts of 0..MaxEmbedLen characters given to generateEmbedding
MaxTextLen == 5     \* texts of 0..MaxTextLen characters given to chunkText
MaxChunkSize == 3   \* maxChunkSize 1..MaxChunkSize given to chunkText
MaxWords == 3       \* file contents of 0..MaxWords words given to processText
MaxCorpus == 101    \* stored documents 1..n, n up to MaxCorpus, of a large index
MaxClock == 2       \* Date.now() takes the values 1..MaxClock while requests arrive
LongSentence == 600 \* characters of a sentence of a file longer than one chunk
MaxSearches == 1    \* searchDocuments calls in progress at once
MaxWrites == 1      \* indexDocument calls (with their route handlers) in progress at once
MaxAsks == 1        \* POST /ask handlers that are followed at once
MaxHung == 1        \* POST /ask handlers left waiting for ever by the generator
MaxForeign == 1     \* document ids another writer of the index stores under
MaxEmbeds == 1      \* direct generateEmbedding calls in progress at once
MaxFiltered == 1    \* searchDocumentsWithFilters calls in progress at once
StoredLater == 1    \* documents 1..StoredLater are stored while a filtered search runs
StartQueries == 1   \* queries 1..StartQueries are sent while startServer is followed

(***************************************************************************)
(* Program constants.                                                      *)
(***************************************************************************)
One == 1000                 \* the score 1.0 in thousandths
DefaultSize == 10           \* searchDocuments(query, size = 10)
AskTopK == 5                \* /ask: searchDocuments(question, 5)
AllDocsFetchSize == 100     \* match_all query, size: 100
KeywordNormalizer == 10     \* hit._score / 10
VectorWeightTenths == 7     \* doc.score * 0.7
KeywordWeightTenths == 3    \* result.score * 0.3
KeywordOnlyWeightTenths == 5 \* result.score * 0.5
Created == 201              \* res.status(201)
BadRequest == 400           \* res.status(400)
ServerError == 500          \* res.status(500)

DocIds == 1..NumDocs
Queries == 1..NumQueries
DocSlot(d) == ((d - 1) % 3) + 1
QuerySlot(q) == ((q - 1) % 4) + 1

Min(a, b) == IF a <= b THEN a ELSE b

(***************************************************************************)
(* The documents a client can ingest.  Document d always has the same      *)
(* title, content, source and metadata; three shapes are covered: a manual *)
(* entry, a scraped page (metadata.url) and an uploaded file a.pdf         *)
(* (metadata.originalName; its title is the file name without .pdf).       *)
(***************************************************************************)
DocTitle(d) ==
  CASE DocSlot(d) = 1 -> "React hooks"
    [] DocSlot(d) = 2 -> "Docker guide"
    [] OTHER -> "a"

DocContent(d) ==
  CASE DocSlot(d) = 1 -> "React hooks let you use state in function components"
    [] DocSlot(d) = 2 -> "Docker packages an application into a container"
    [] OTHER -> "Miscellaneous notes"

DocTechnology(d) ==
  CASE DocSlot(d) = 1 -> "React"
    [] DocSlot(d) = 2 -> "Web Documentation"
    [] OTHER -> "General"

\* _source as stored: source plus the optional metadata.url and
\* metadata.originalName ("" when the field is absent).
DocSourceData(d) ==
  CASE DocSlot(d) = 1 -> [source |-> "Manual entry", url |-> "", originalName |-> ""]
    [] DocSlot(d) = 2 -> [source |-> "https://react.dev", url |-> "https://react.dev",
                         originalName |-> "Docker guide"]
    [] OTHER -> [source |-> "Uploaded file: a.pdf", url |-> "", originalName |-> "a.pdf"]

\* formatSource: metadata.url, else "source (originalName)", else source,
\* with 'Unknown source' standing in for an empty source.  The result is the
\* sequence of the pieces the template string concatenates.
formatSource(sd) ==
  LET source == IF sd.source = "" THEN "Unknown source" ELSE sd.source
  IN IF sd.url # "" THEN <<sd.url>>
     ELSE IF sd.originalName # "" THEN <<source, " (", sd.originalName, ")">>
     ELSE <<source>>

(***************************************************************************)
(* The embedding model (external): the vector it returns for a document's  *)
(* text and for a query.  Vectors are integer multiples of unit vectors    *)
(* whose squared norms are perfect squares, so cosineSimilarity is exact.  *)
(***************************************************************************)
DocEmbedding(d) ==
  CASE DocSlot(d) = 1 -> <<1, 0>>
    [] DocSlot(d) = 2 -> <<3, 4>>
    [] OTHER -> <<-1, 0>>

QueryEmbedding(q) ==
  CASE QuerySlot(q) = 1 -> <<1, 0>>
    [] QuerySlot(q) = 2 -> <<0, 1>>
    [] QuerySlot(q) = 3 -> <<4, 3>>
    [] OTHER -> <<1, 0>>

\* query.toLowerCase().includes('how') || ...includes('what')
QueryHasHowOrWhat(q) == QuerySlot(q) \in {1, 3}

(***************************************************************************)
(* The search engine (external): the relevance _score, in thousandths, it  *)
(* gives document d for the multi_match query q; 0 means d is not a hit.   *)
(* Covered: scores above the normalizer (25.0), at it (10.0), small (0.5), *)
(* no keyword hit at all (query 3) and a three-way tie (query 4).          *)
(***************************************************************************)
KeywordRawScore(q, d) ==
  CASE QuerySlot(q) = 1 -> (CASE DocSlot(d) = 1 -> 25000 [] DocSlot(d) = 2 -> 4000 [] OTHER -> 0)
    [] QuerySlot(q) = 2 -> (CASE DocSlot(d) = 1 -> 0 [] DocSlot(d) = 2 -> 10000 [] OTHER -> 500)
    [] QuerySlot(q) = 3 -> 0
    [] OTHER -> 3000

(***************************************************************************)
(* EmbeddingService.cosineSimilarity.                                      *)
(***************************************************************************)
RECURSIVE DotFrom(_, _, _)
DotFrom(e1, e2, i) ==
  IF i > Len(e1) THEN 0 ELSE e1[i] * e2[i] + DotFrom(e1, e2, i + 1)

ISqrt(n) == CHOOSE r \in 0..n : r * r <= n /\ (r + 1) * (r + 1) > n

\* Variant: embeddings of different lengths are compared all the same.
cosineNeverThrows(e1, e2) == FALSE

\* 'Embeddings must have the same length'
cosineThrows(e1, e2) == Len(e1) # Len(e2)

\* dotProduct / (sqrt(norm1) * sqrt(norm2)), in thousandths
cosineSimilarity(e1, e2) ==
  (One * DotFrom(e1, e2, 1)) \div (ISqrt(DotFrom(e1, e1, 1)) * ISqrt(DotFrom(e2, e2, 1)))

(***************************************************************************)
(* Array helpers: slice(0, n), a stable sort by descending score           *)
(* (Array.prototype.sort with (a, b) => b.score - a.score), and filter.    *)
(***************************************************************************)
Slice(s, n) == SubSeq(s, 1, Min(n, Len(s)))

\* two sorted sequences merged, an element of a before its equals in b
MergeByScore(a, b) ==
  LET posA == [i \in 1..Len(a) |->
                 i + Cardinality({j \in 1..Len(b) : b[j].score > a[i].score})]
      posB == [j \in 1..Len(b) |->
                 j + Cardinality({i \in 1..Len(a) : a[i].score >= b[j].score})]
      merged == [k \in 1..(Len(a) + Len(b)) |->
                   IF \E i \in 1..Len(a) : posA[i] = k
                   THEN a[CHOOSE i \in 1..Len(a) : posA[i] = k]
                   ELSE b[CHOOSE j \in 1..Len(b) : posB[j] = k]]
  IN SubSeq(merged, 1, Len(a) + Len(b))

\* the elements lo..hi of s, sorted
RECURSIVE SortFrom(_, _, _)
SortFrom(s, lo, hi) ==
  IF lo > hi THEN <<>>
  ELSE IF lo = hi THEN <<s[lo]>>
  ELSE MergeByScore(SortFrom(s, lo, (lo + hi) \div 2), SortFrom(s, (lo + hi) \div 2 + 1, hi))

SortByScoreDesc(s) == SortFrom(s, 1, Len(s))

RECURSIVE FilterIds(_, _, _)
\* the ids of 1..n, ascending, that satisfy keep
FilterIds(i, n, keep) ==
  IF i > n THEN <<>>
  ELSE IF i = n THEN (IF keep[i] THEN <<i>> ELSE <<>>)
  ELSE FilterIds(i, (i + n) \div 2, keep) \o FilterIds((i + n) \div 2 + 1, n, keep)

IdsOf(s) == {s[i].id : i \in 1..Len(s)}

(***************************************************************************)
(* State.                                                                  *)
(***************************************************************************)
VARIABLES
  server,                  \* "starting", "listening" or "exited" (index.ts startServer)
  initializationAttempted, \* fileProcessor.ts:325
  embeddingPipeline,       \* "null" or "loaded" (fileProcessor.ts:324)
  apiKey,                  \* whether process.env.ANTHROPIC_API_KEY is set
  index,                   \* the 'documents' index: per id "absent", "noemb" or "emb"
  inflight,                \* the calls and handlers in progress, each at one of its awaits
  call,                    \* the searchDocuments call that returned in the latest step
  ask,                     \* the /ask handler that moved in the latest step
  response,                \* the HTTP response sent in the latest step
  loading,                 \* whether initialize is awaiting pipeline() (fileProcessor.ts:339)
  now,                     \* Date.now(), in milliseconds since the process started
  op                       \* the latest direct call of a service method and its outcome

vars == <<server, initializationAttempted, embeddingPipeline, apiKey, now, index, inflight, call,
          ask, response, loading, op>>

(***************************************************************************)
(* What the external collaborators do during one searchDocuments call:     *)
(* whether the embedding pipeline, the match_all query, the keyword query  *)
(* and the keyword query of keywordSearchOnly succeed.  A collaborator the *)
(* call never reaches is "unused".                                         *)
(***************************************************************************)
Env(e, a, k, f) == [embed |-> e, allDocs |-> a, keyword |-> k, fallback |-> f]

(***************************************************************************)
(* The search engine's answers.                                            *)
(***************************************************************************)
\* the number of ids the index idx ranges over (its ids are 1..IndexSize(idx))
IndexSize(idx) == Cardinality(DOMAIN idx)

\* match_all, size 100: the stored documents, in id order
AllDocsHits(idx) ==
  Slice(FilterIds(1, IndexSize(idx), [d \in DOMAIN idx |-> idx[d] # "absent"]),
        AllDocsFetchSize)

\* multi_match, size n: the stored documents with a positive _score, best first
KeywordHits(idx, q, n) ==
  LET ids == FilterIds(1, IndexSize(idx),
               [d \in DOMAIN idx |-> idx[d] # "absent" /\ KeywordRawScore(q, d) > 0])
      hits == [i \in 1..Len(ids) |-> [id |-> ids[i], score |-> KeywordRawScore(q, ids[i])]]
  IN Slice(SortByScoreDesc(hits), n)

SearchResult(d, s) ==
  \* content: every document's content is shorter than maxLength and than one
  \* highlight fragment, so generateExcerpt and the tag-stripped highlight both
  \* yield the stored content
  [id |-> d, title |-> DocTitle(d), content |-> DocContent(d),
   source |-> formatSource(DocSourceData(d)), technology |-> DocTechnology(d),
   score |-> s]

(***************************************************************************)
(* opensearchService.keywordSearchOnly: the hits with score                *)
(* min(_score / 10, 1); [] when the query fails.                           *)
(***************************************************************************)
ClampedKeywordScore(raw) == Min(raw \div KeywordNormalizer, One)

keywordSearchOnly(idx, q, size, queryOk) ==
  IF ~queryOk THEN <<>>
  ELSE LET hits == KeywordHits(idx, q, size)
       IN [i \in 1..Len(hits) |-> SearchResult(hits[i].id, ClampedKeywordScore(hits[i].score))]

(***************************************************************************)
(* opensearchService.searchDocuments, steps 3 to 7.                        *)
(***************************************************************************)
\* Step 3 and 4: similarity of every fetched document that has an embedding,
\* sorted by similarity
\* hit._source.embedding is set
HasEmbedding(entry) == entry \in {"emb", "embOther"}

\* hit._source.embedding: the vector generateEmbedding gave for the document,
\* or, for an entry written with another model, one of another length
StoredEmbedding(entry, d) ==
  IF entry = "embOther" THEN DocEmbedding(d) \o <<0>> ELSE DocEmbedding(d)

VectorResults(idx, q) ==
  LET all == AllDocsHits(idx)
      ids == FilterIds(1, Len(all), [i \in 1..Len(all) |-> HasEmbedding(idx[all[i]])])
      sims == [i \in 1..Len(ids) |->
                 SearchResult(all[ids[i]],
                              cosineSimilarity(QueryEmbedding(q),
                                               StoredEmbedding(idx[all[ids[i]]], all[ids[i]])))]
  IN SortByScoreDesc(sims)

VectorThrows(idx, q) ==
  LET all == AllDocsHits(idx)
  IN \E i \in 1..Len(all) :
       /\ HasEmbedding(idx[all[i]])
       /\ cosineThrows(QueryEmbedding(q), StoredEmbedding(idx[all[i]], all[i]))

\* Step 5: hit._score / 10
NormalizedKeywordScore(raw) == raw \div KeywordNormalizer

KeywordResults(idx, q, size) ==
  LET hits == KeywordHits(idx, q, size * 2)
  IN [i \in 1..Len(hits) |-> SearchResult(hits[i].id, NormalizedKeywordScore(hits[i].score))]

\* Variant: a vector-only hit weighted with the single-signal 0.5.
VectorOnlyScoreHalved(sim) == (sim * KeywordOnlyWeightTenths) \div 10

\* Step 6, vector part: score: doc.score * 0.7
VectorOnlyScore(sim) == (sim * VectorWeightTenths) \div 10

\* Variant: the keyword part replaces the vector part instead of adding to it.
BothScoreOverwrites(existing, kw) == Min((kw * KeywordWeightTenths) \div 10, One)

\* Step 6, a keyword hit already in the map:
\* Math.min(existing.score + (result.score * 0.3), 1)
BothScore(existing, kw) == Min(existing + (kw * KeywordWeightTenths) \div 10, One)

\* Step 6, a keyword hit not in the map: score: result.score * 0.5
KeywordOnlyScore(kw) == (kw * KeywordOnlyWeightTenths) \div 10

\* Variant: every scored document enters the merge.
VectorEntriesUncut(vectorResults, size) ==
  [i \in 1..Len(vectorResults) |->
     [vectorResults[i] EXCEPT !.score = VectorOnlyScore(vectorResults[i].score)]]

\* The map of step 6 as the sequence of its values in insertion order.
VectorEntries(vectorResults, size) ==
  LET top == Slice(vectorResults, size)
  IN [i \in 1..Len(top) |-> [top[i] EXCEPT !.score = VectorOnlyScore(top[i].score)]]

\* Variant: a keyword hit is always added as a new entry.
AddKeywordAppends(combined, result) ==
  Append(combined, [result EXCEPT !.score = KeywordOnlyScore(result.score)])

\* Step 6, one keyword result: combinedResults.has(result.id) ? boost : set
AddKeyword(combined, result) ==
  IF result.id \in IdsOf(combined)
  THEN [i \in 1..Len(combined) |->
          IF combined[i].id = result.id
          THEN [combined[i] EXCEPT !.score = BothScore(combined[i].score, result.score)]
          ELSE combined[i]]
  ELSE Append(combined, [result EXCEPT !.score = KeywordOnlyScore(result.score)])

RECURSIVE AddKeywordsFrom(_, _, _)
AddKeywordsFrom(combined, keywordResults, i) ==
  IF i > Len(keywordResults) THEN combined
  ELSE AddKeywordsFrom(AddKeyword(combined, keywordResults[i]), keywordResults, i + 1)

CombinedResults(vectorResults, keywordResults, size) ==
  AddKeywordsFrom(VectorEntries(vectorResults, size), keywordResults, 1)

\* Variant: the entries are cut to size before they are sorted.
FinalResultsCutFirst(combined, size) == SortByScoreDesc(Slice(combined, size))

\* Step 7
FinalResults(combined, size) == Slice(SortByScoreDesc(combined), size)

\* Variant: no catch around the hybrid search, so a failure rejects the call.
searchDocumentsRethrows(allDocs, idx, pipeline, q, size, env) ==
  LET hybrid == /\ pipeline = "loaded"
                /\ env.embed = "ok"
                /\ env.allDocs = "ok"
                /\ env.keyword = "ok"
                /\ ~VectorThrows(allDocs, q)
      vectorResults == VectorResults(allDocs, q)
      keywordResults == KeywordResults(idx, q, size)
  IN IF hybrid
     THEN [path |-> "hybrid", threw |-> FALSE,
           vectorResults |-> vectorResults, keywordResults |-> keywordResults,
           results |-> FinalResults(CombinedResults(vectorResults, keywordResults, size), size)]
     ELSE [path |-> "hybrid", threw |-> TRUE,
           vectorResults |-> <<>>, keywordResults |-> <<>>, results |-> <<>>]

\* The whole call: allDocs is the index as the match_all request read it, idx
\* the index as the last query of the call (multi_match, or the query of
\* keywordSearchOnly) read it.  path tells which return statement produced
\* the results; threw is whether the call rejected, and no path of the source
\* does.
searchDocuments(allDocs, idx, pipeline, q, size, env) ==
  LET hybrid == /\ pipeline = "loaded"
                /\ env.embed = "ok"
                /\ env.allDocs = "ok"
                /\ env.keyword = "ok"
                /\ ~VectorThrows(allDocs, q)
      vectorResults == VectorResults(allDocs, q)
      keywordResults == KeywordResults(idx, q, size)
  IN IF hybrid
     THEN [path |-> "hybrid", threw |-> FALSE,
           vectorResults |-> vectorResults, keywordResults |-> keywordResults,
           results |-> FinalResults(CombinedResults(vectorResults, keywordResults, size), size)]
     ELSE [path |-> "keywordOnly", threw |-> FALSE,
           vectorResults |-> <<>>, keywordResults |-> <<>>,
           results |-> keywordSearchOnly(idx, q, size, env.fallback = "ok")]

(***************************************************************************)
(* claudeService: the ClaudeResponse values.  A text is kept as the        *)
(* literal that opens it together with the values the template inserts.    *)
(***************************************************************************)
NoDocsAnswerWithKey == "I couldn't find any relevant documents in your knowledge base to answer this question."
NoDocsAnswerMock == "I couldn't find any relevant documents to answer your question."
NoDocsReasoning == "No relevant documents found in the knowledge base."
MockMarker == "Mock response generated."
GenuineMarker == "Generated response using Claude"
MockHowWhatOpening == "Based on the documentation I found, here's what I can tell you about"
MockGeneralOpening == "I found relevant information about"
GeneratedText == "<text of response.content[0]>"
UnableText == "Unable to generate response"

Answer(text, q, title, content, others) ==
  [text |-> text, query |-> q, topTitle |-> title, topContent |-> content, others |-> others]

Reasoning(text, count, title, relevance) ==
  [text |-> text, count |-> count, topTitle |-> title, topRelevance |-> relevance]

\* Math.round(score * 100): round half up
RoundPercent(score) == (score + 5) \div 10

NoDocsResponse ==
  [answer |-> Answer(NoDocsAnswerWithKey, 0, "", "", 0),
   reasoning |-> Reasoning(NoDocsReasoning, 0, "", 0)]

generateMockResponse(q, documents) ==
  IF Len(documents) = 0
  THEN [answer |-> Answer(NoDocsAnswerMock, 0, "", "", 0),
        reasoning |-> Reasoning(NoDocsReasoning, 0, "", 0)]
  ELSE [answer |-> Answer(IF QueryHasHowOrWhat(q) THEN MockHowWhatOpening ELSE MockGeneralOpening,
                          q, documents[1].title, documents[1].content, Len(documents) - 1),
        reasoning |-> Reasoning(MockMarker, Len(documents), "", 0)]

\* the return of the try block once messages.create has resolved
GeneratedResponse(documents, firstBlockIsText) ==
  [answer |-> Answer(IF firstBlockIsText THEN GeneratedText ELSE UnableText, 0, "", "", 0),
   reasoning |-> Reasoning(GenuineMarker, Len(documents), documents[1].title,
                           RoundPercent(documents[1].score))]

(***************************************************************************)
(* routes.ts: the JSON bodies.                                             *)
(***************************************************************************)
\* Variant: only the top result is cited.
SourcesTopOnly(searchResults) ==
  [i \in 1..Min(1, Len(searchResults)) |->
     [title |-> searchResults[i].title, source |-> searchResults[i].source,
      relevance |-> RoundPercent(searchResults[i].score)]]

Sources(searchResults) ==
  [i \in 1..Len(searchResults) |->
     [title |-> searchResults[i].title, source |-> searchResults[i].source,
      relevance |-> RoundPercent(searchResults[i].score)]]

NoAnswer == Answer("", 0, "", "", 0)
NoReasoning == Reasoning("", 0, "", 0)

NoResponse ==
  [route |-> "none", status |-> 0, results |-> <<>>, totalResults |-> 0,
   answer |-> NoAnswer, reasoning |-> NoReasoning, sources |-> <<>>, totalSources |-> 0]

SearchResponse(out) ==
  IF out.threw
  THEN [NoResponse EXCEPT !.route = "search", !.status = 500]
  ELSE [NoResponse EXCEPT !.route = "search", !.status = 200,
                          !.results = out.results, !.totalResults = Len(out.results)]

AskResponse(aiResponse, searchResults) ==
  [NoResponse EXCEPT !.route = "ask", !.status = 200,
                     !.answer = aiResponse.answer, !.reasoning = aiResponse.reasoning,
                     !.sources = Sources(searchResults),
                     !.totalSources = Len(searchResults)]

\* POST /ask answers 500 when searchDocuments or generateRAGResponse throws
AskFailedResponse == [NoResponse EXCEPT !.route = "ask", !.status = ServerError]

NoOut ==
  [path |-> "none", threw |-> FALSE, vectorResults |-> <<>>, keywordResults |-> <<>>,
   results |-> <<>>]

NoEnv == Env("unused", "unused", "unused", "unused")

\* allDocsResponse before the match_all request was answered
NotRead == <<>>

\* A searchDocuments call that returned: who called it (caller "direct",
\* "search" for POST /search, "ask" for the POST /ask handler in slot asker),
\* its arguments, what its collaborators did, the index as its match_all
\* request read it, and what it returned.
NoCall == [caller |-> "none", asker |-> 0, query |-> 0, size |-> 0, env |-> NoEnv,
           allDocs |-> NotRead, out |-> NoOut]

NoOp == [name |-> "none"]

\* the /ask handler: pc, the documents handed to generateRAGResponse, the
\* number of messages.create calls it has made and the state of that promise
\* ("notCalled", "pending", "resolved", "rejected", or "never" once it is
\* settled that the generator will not answer)
IdleAsk == [pc |-> "idle", question |-> 0, documents |-> <<>>, generatorCalls |-> 0,
            generator |-> "notCalled"]

\* a searchDocuments call in progress: pc is the await it is at ("embedding":
\* opensearch.ts:184, "allDocs": 187, "keyword": 197, "fallback": the query of
\* keywordSearchOnly called from the catch block, 300)
IdleSearch == [pc |-> "idle", caller |-> "none", asker |-> 0, query |-> 0, size |-> 0,
               env |-> NoEnv, allDocs |-> NotRead]

\* an indexDocument call in progress, with the route handler that made it:
\* pc is the await it is at ("processing": routes.ts:125 and 227,
\* "embedding": opensearch.ts:88, "indexing": 97); pipeline is what
\* isInitialized() saw, chunks and threw what the processing gave
IdleWrite == [pc |-> "idle", caller |-> "none", doc |-> 0, pipeline |-> "null",
              embedOk |-> FALSE, threw |-> FALSE, chunks |-> 0]

\* a direct generateEmbedding call waiting for the model
\* (fileProcessor.ts:379); pipeline is what the call read before the await
IdleEmbed == [pc |-> "idle", text |-> <<>>, pipeline |-> "null"]

\* a searchDocumentsWithFilters call: pc is "called" until it starts and
\* then the await it is at ("embedding": claude.ts:680, "allDocs": 685,
\* "keyword": 695, "fallback": the searchDocuments call of the catch block,
\* 804); technologyKeyword is
\* whether the index has the field technology.keyword, allDocs what the
\* filtered match_all request was answered
NoFilters == [technology |-> {}, fileType |-> {}, dateRange |-> "all", sortBy |-> "relevance"]
IdleFiltered == [pc |-> "idle", query |-> 0, filters |-> NoFilters, size |-> 0,
                 technologyKeyword |-> FALSE, allDocs |-> NotRead]

\* nothing in progress
NoneInFlight ==
  [calls |-> [s \in 1..MaxSearches |-> IdleSearch],
   writes |-> [w \in 1..MaxWrites |-> IdleWrite],
   asks |-> [a \in 1..MaxAsks |-> IdleAsk],
   embeds |-> [e \in 1..MaxEmbeds |-> IdleEmbed],
   filtered |-> [f \in 1..MaxFiltered |-> IdleFiltered],
   hung |-> 0]

HasFree(pool) == \E s \in DOMAIN pool : pool[s].pc = "idle"
FreeSlot(pool) ==
  CHOOSE s \in DOMAIN pool :
    pool[s].pc = "idle" /\ \A t \in DOMAIN pool : pool[t].pc = "idle" => s <= t

\* Variant: the documents.length === 0 check is missing.
ReachesGeneratorWithoutDocuments(hasKey, documents) == hasKey

\* generateRAGResponse lines 27-37: messages.create is reached only with a key
\* and with documents
ReachesGenerator(hasKey, documents) == hasKey /\ Len(documents) # 0

(***************************************************************************)
(* Initial state: the process has been started and startServer has not yet *)
(* run; the index is empty.                                                *)
(***************************************************************************)
Init ==
  /\ server = "starting"
  /\ initializationAttempted = FALSE
  /\ embeddingPipeline = "null"
  /\ apiKey \in BOOLEAN
  /\ now = 0
  /\ index = [d \in DocIds |-> "absent"]
  /\ inflight = NoneInFlight
  /\ call = NoCall
  /\ ask = IdleAsk
  /\ response = NoResponse
  /\ loading = FALSE
  /\ op = NoOp

(***************************************************************************)
(* call, ask, response and op tell what the latest step returned or sent:  *)
(* the searchDocuments call that returned in it, the /ask handler that     *)
(* moved in it, the HTTP response sent in it and the service call that     *)
(* returned in it.  A step that returns or sends nothing resets them.      *)
(***************************************************************************)
Quiet ==
  /\ call' = NoCall
  /\ ask' = IdleAsk
  /\ response' = NoResponse
  /\ op' = NoOp

\* Variant: a repeated initialize returns without doing anything.
InitializeEntryIgnoresRepeat(attempted) == IF attempted THEN "returns" ELSE "loads"

\* initialize up to its await: the guard on initializationAttempted
InitializeEntry(attempted) == IF attempted THEN "throws" ELSE "loads"

(***************************************************************************)
(* startServer step by step: initialize up to its await, the model load    *)
(* settling, the two requests of ensureIndex, app.listen.  A failed        *)
(* initialize ends the process; ensureIndex catches every error of its     *)
(* requests and returns, so startServer goes on to app.listen.             *)
(***************************************************************************)
\* startServer calls EmbeddingService.initialize, which runs to its await
StartInitialize ==
  /\ server = "starting"
  /\ IF InitializeEntry(initializationAttempted) = "loads"
     THEN /\ initializationAttempted' = TRUE
          /\ loading' = TRUE
          /\ server' = "initializing"
     ELSE /\ server' = "exited"
          /\ UNCHANGED <<initializationAttempted, loading>>
  /\ op' = NoOp
  /\ UNCHANGED <<embeddingPipeline, apiKey, now, index, call, ask, response, inflight>>

\* pipeline() resolves, initialize returns, startServer calls ensureIndex,
\* which sends indices.exists
StartInitialized ==
  /\ server = "initializing"
  /\ loading
  /\ loading' = FALSE
  /\ embeddingPipeline' = "loaded"
  /\ server' = "ensuringIndex"
  /\ UNCHANGED <<initializationAttempted, apiKey, now, index, call, ask, response, op, inflight>>

\* pipeline() rejects, initialize throws, startServer exits
StartInitializeFails ==
  /\ server = "initializing"
  /\ loading
  /\ loading' = FALSE
  /\ embeddingPipeline' = "null"
  /\ server' = "exited"
  /\ UNCHANGED <<initializationAttempted, apiKey, now, index, call, ask, response, op, inflight>>

\* indices.exists is answered.  When the index is missing ensureIndex sends
\* indices.create; when it exists, or the request failed (the catch block
\* only logs), ensureIndex returns and startServer calls app.listen.
StartIndexExistsAnswered(answer) ==
  /\ server = "ensuringIndex"
  /\ server' = IF answer = "missing" THEN "creatingIndex" ELSE "listening"
  /\ UNCHANGED <<initializationAttempted, embeddingPipeline, apiKey, now, index, call, ask,
                 response, loading, op, inflight>>

\* indices.create is answered or fails: ensureIndex returns either way and
\* startServer calls app.listen
StartIndexCreateAnswered(createOk) ==
  /\ server = "creatingIndex"
  /\ server' = "listening"
  /\ UNCHANGED <<initializationAttempted, embeddingPipeline, apiKey, now, index, call, ask,
                 response, loading, op, inflight>>

\* the steps of startServer
StartSteps ==
  \/ StartInitialize
  \/ StartInitialized
  \/ StartInitializeFails
  \/ \E answer \in {"exists", "missing", "fails"} : StartIndexExistsAnswered(answer)
  \/ \E createOk \in BOOLEAN : StartIndexCreateAnswered(createOk)

\* Variant: the routes are served while startServer is still running.
CanAcceptBeforeListen == server \notin {"exited"}

\* the routes are served once app.listen was called; every handler runs to
\* its next await and others are served meanwhile
CanAccept == server = "listening"

(***************************************************************************)
(* opensearchService.indexDocument, await by await: the document is stored *)
(* under its id, with an embedding when the service is initialized and     *)
(* generateEmbedding succeeds.                                             *)
(***************************************************************************)
\* Variant: a failed embedding aborts the upsert, leaving what was stored.
IndexedEntryAborting(pipeline, embedOk, storeOk, old) ==
  IF pipeline = "loaded" /\ embedOk /\ storeOk THEN "emb" ELSE old

\* What opensearchClient.index stores under the id, overwriting the old entry:
\* the document with its embedding when isInitialized() and generateEmbedding
\* succeeded, the document alone otherwise; when the index request itself
\* fails nothing is stored.
IndexedEntry(pipeline, embedOk, storeOk, old) ==
  IF ~storeOk THEN old
  ELSE IF pipeline = "loaded" /\ embedOk THEN "emb" ELSE "noemb"

\* indexDocument(document with id d) is called and runs to its first await:
\* generateEmbedding when isInitialized(), opensearchClient.index otherwise
indexDocumentCall(d, caller, chunks) ==
  LET w == FreeSlot(inflight.writes)
  IN /\ HasFree(inflight.writes)
     /\ inflight' = [inflight EXCEPT
                       !.writes[w] = [pc |-> IF embeddingPipeline = "loaded"
                                             THEN "embedding" ELSE "indexing",
                                      caller |-> caller, doc |-> d,
                                      pipeline |-> embeddingPipeline,
                                      embedOk |-> FALSE, threw |-> FALSE, chunks |-> chunks]]
     /\ Quiet
     /\ UNCHANGED <<server, initializationAttempted, embeddingPipeline, apiKey, now, index,
                    loading>>

\* a direct call opensearchService.indexDocument(document d)
indexDocument(d) ==
  /\ CanAccept
  /\ indexDocumentCall(d, "direct", 0)

\* the route that ingests a document of d's shape
RouteOf(d) ==
  CASE DocSlot(d) = 1 -> "documents"
    [] DocSlot(d) = 2 -> "scrape"
    [] OTHER -> "upload"

\* the chunk count the route of document d reports in its 201: POST
\* /documents reports none, the upload and scrape routes report
\* processedDoc.chunks.length, one chunk for the short contents of DocContent
ChunksReported(d) == IF RouteOf(d) = "documents" THEN 0 ELSE 1

\* the ingestion route of document d (POST /documents, /documents/scrape or
\* /documents/upload) from the point where it has built the document and
\* calls indexDocument; d is the id Date.now() gave
IngestDocument(d) ==
  /\ CanAccept
  /\ indexDocumentCall(d, RouteOf(d), ChunksReported(d))

\* generateEmbedding settles inside indexDocument: the embedding is attached
\* or the failure is logged, and opensearchClient.index is called
DocumentEmbeddingSettles(w, embedOk) ==
  /\ inflight.writes[w].pc = "embedding"
  /\ inflight' = [inflight EXCEPT !.writes[w].pc = "indexing",
                                  !.writes[w].embedOk = embedOk]
  /\ Quiet
  /\ UNCHANGED <<server, initializationAttempted, embeddingPipeline, apiKey, now, index, loading>>

\* what the route handler answers once indexDocument has returned or thrown
IngestStatus(storeOk) == IF storeOk THEN Created ELSE ServerError

\* opensearchClient.index is answered: the entry is written, or the request
\* failed and indexDocument rethrows.  op keeps what was stored under the id
\* before; for a route handler it is the 201 or 500 it sends.
IndexRequestAnswered(w, storeOk) ==
  LET r == inflight.writes[w]
      embedded == r.pipeline = "loaded" /\ r.embedOk
  IN /\ r.pc = "indexing"
     /\ index' = [index EXCEPT
                    ![r.doc] = IndexedEntry(r.pipeline, r.embedOk, storeOk, index[r.doc])]
     /\ inflight' = [inflight EXCEPT !.writes[w] = IdleWrite]
     /\ op' = IF r.caller = "direct"
              THEN [name |-> "indexDocument", doc |-> r.doc, embedded |-> embedded,
                    stored |-> storeOk, before |-> index[r.doc], threw |-> ~storeOk]
              ELSE [name |-> r.caller, status |-> IngestStatus(storeOk), id |-> r.doc,
                    chunks |-> r.chunks, embedded |-> embedded, before |-> index[r.doc]]
     /\ call' = NoCall
     /\ ask' = IdleAsk
     /\ response' = NoResponse
     /\ UNCHANGED <<server, initializationAttempted, embeddingPipeline, apiKey, now, loading>>

(***************************************************************************)
(* opensearchService.searchDocuments, await by await, and its callers.     *)
(***************************************************************************)
\* searchDocuments(q, size) is called and runs to its first await.
\* generateEmbedding throws at once when the model is not loaded, and the
\* catch block calls keywordSearchOnly, which sends its query.
searchDocumentsCall(caller, asker, q, size) ==
  LET s == FreeSlot(inflight.calls)
      ready == embeddingPipeline = "loaded"
  IN [inflight EXCEPT
        !.calls[s] = [pc |-> IF ready THEN "embedding" ELSE "fallback",
                      caller |-> caller, asker |-> asker, query |-> q, size |-> size,
                      env |-> IF ready THEN NoEnv
                              ELSE Env("fail", "unused", "unused", "unused"),
                      allDocs |-> NotRead]]

\* a direct call opensearchService.searchDocuments(q, size)
Retrieve(q, size) ==
  /\ CanAccept
  /\ HasFree(inflight.calls)
  /\ inflight' = searchDocumentsCall("direct", 0, q, size)
  /\ Quiet
  /\ UNCHANGED <<loading, server, initializationAttempted, embeddingPipeline, apiKey, now, index>>

\* POST /search up to its await of searchDocuments(query)
PostSearch(q) ==
  /\ CanAccept
  /\ HasFree(inflight.calls)
  /\ inflight' = searchDocumentsCall("search", 0, q, DefaultSize)
  /\ Quiet
  /\ UNCHANGED <<loading, server, initializationAttempted, embeddingPipeline, apiKey, now, index>>

\* POST /ask up to its await of searchDocuments(question, 5)
PostAsk(q) ==
  /\ CanAccept
  /\ HasFree(inflight.calls)
  /\ HasFree(inflight.asks)
  /\ LET a == FreeSlot(inflight.asks)
         handler == [IdleAsk EXCEPT !.pc = "searching", !.question = q]
     IN /\ inflight' = [searchDocumentsCall("ask", a, q, AskTopK) EXCEPT !.asks[a] = handler]
        /\ ask' = handler
  /\ call' = NoCall
  /\ response' = NoResponse
  /\ op' = NoOp
  /\ UNCHANGED <<loading, server, initializationAttempted, embeddingPipeline, apiKey, now, index>>

\* generateEmbedding(query) settles: the match_all request is sent, or the
\* catch block calls keywordSearchOnly
QueryEmbeddingSettles(s, embedOk) ==
  /\ inflight.calls[s].pc = "embedding"
  /\ inflight' = [inflight EXCEPT
                    !.calls[s].pc = IF embedOk THEN "allDocs" ELSE "fallback",
                    !.calls[s].env.embed = IF embedOk THEN "ok" ELSE "fail"]
  /\ Quiet
  /\ UNCHANGED <<loading, server, initializationAttempted, embeddingPipeline, apiKey, now, index>>

\* the match_all request is answered with the index as it is now, and the
\* multi_match request is sent; or it fails
AllDocsAnswered(s, allDocsOk) ==
  /\ inflight.calls[s].pc = "allDocs"
  /\ inflight' = [inflight EXCEPT
                    !.calls[s].pc = IF allDocsOk THEN "keyword" ELSE "fallback",
                    !.calls[s].env.allDocs = IF allDocsOk THEN "ok" ELSE "fail",
                    !.calls[s].allDocs = IF allDocsOk THEN index ELSE NotRead]
  /\ Quiet
  /\ UNCHANGED <<loading, server, initializationAttempted, embeddingPipeline, apiKey, now, index>>

\* the /ask handler in slot a once searchDocuments has returned out: it calls
\* generateRAGResponse, which awaits the mock's timer without a key, answers
\* at once for an empty retrieval and awaits messages.create otherwise
AskAfterSearch(a, out, freed) ==
  LET h == [inflight.asks[a] EXCEPT !.documents = out.results]
  IN IF out.threw
     THEN /\ ask' = [h EXCEPT !.pc = "done"]
          /\ response' = AskFailedResponse
          /\ inflight' = [freed EXCEPT !.asks[a] = IdleAsk]
     ELSE IF ReachesGenerator(apiKey, h.documents)
     THEN /\ ask' = [h EXCEPT !.pc = "generating", !.generatorCalls = 1,
                              !.generator = "pending"]
          /\ response' = NoResponse
          /\ inflight' = [freed EXCEPT !.asks[a] = ask']
     ELSE IF ~apiKey
     THEN /\ ask' = [h EXCEPT !.pc = "mockTimer"]
          /\ response' = NoResponse
          /\ inflight' = [freed EXCEPT !.asks[a] = ask']
     ELSE /\ ask' = [h EXCEPT !.pc = "done"]
          /\ response' = AskResponse(NoDocsResponse, h.documents)
          /\ inflight' = [freed EXCEPT !.asks[a] = IdleAsk]

\* what a searchDocumentsWithFilters call returned: the path it took and its
\* results, with the arguments of the call
FilteredReturn(r, path, results) ==
  [name |-> "searchDocumentsWithFilters", query |-> r.query, filters |-> r.filters,
   size |-> r.size, technologyKeyword |-> r.technologyKeyword, path |-> path,
   results |-> results]

\* the searchDocumentsWithFilters call in slot f returns what the
\* searchDocuments call of its catch block returned
FilteredFallbackReturns(f, out, freed) ==
  /\ op' = FilteredReturn(inflight.filtered[f], "fallback", out.results)
  /\ inflight' = [freed EXCEPT !.filtered[f] = IdleFiltered]

\* the call in slot s returns out to its caller, which runs to its next
\* await or to its response
searchDocumentsReturns(s, env, out) ==
  LET c == inflight.calls[s]
      freed == [inflight EXCEPT !.calls[s] = IdleSearch]
  IN /\ call' = [caller |-> c.caller, asker |-> c.asker, query |-> c.query, size |-> c.size,
                 env |-> env, allDocs |-> c.allDocs, out |-> out]
     /\ IF c.caller = "ask"
        THEN /\ op' = NoOp
             /\ AskAfterSearch(c.asker, out, freed)
        ELSE IF c.caller = "filters"
        THEN /\ FilteredFallbackReturns(c.asker, out, freed)
             /\ ask' = IdleAsk
             /\ response' = NoResponse
        ELSE /\ op' = NoOp
             /\ inflight' = freed
             /\ ask' = IdleAsk
             /\ response' = IF c.caller = "search" THEN SearchResponse(out) ELSE NoResponse

\* the multi_match request is answered with the index as it is now and the
\* rest of the hybrid search runs; or it fails, or cosineSimilarity throws on
\* a fetched embedding, and the catch block calls keywordSearchOnly
KeywordAnswered(s, keywordOk) ==
  LET c == inflight.calls[s]
      env == [c.env EXCEPT !.keyword = IF keywordOk THEN "ok" ELSE "fail"]
  IN /\ c.pc = "keyword"
     /\ IF keywordOk /\ ~VectorThrows(c.allDocs, c.query)
        THEN searchDocumentsReturns(s, env,
               searchDocuments(c.allDocs, index, embeddingPipeline, c.query, c.size, env))
        ELSE /\ inflight' = [inflight EXCEPT !.calls[s].pc = "fallback", !.calls[s].env = env]
             /\ Quiet
     /\ UNCHANGED <<loading, server, initializationAttempted, embeddingPipeline, apiKey, now,
                    index>>

\* the query of keywordSearchOnly is answered with the index as it is now, or
\* it fails and keywordSearchOnly returns []
FallbackAnswered(s, fallbackOk) ==
  LET c == inflight.calls[s]
      env == [c.env EXCEPT !.fallback = IF fallbackOk THEN "ok" ELSE "fail"]
  IN /\ c.pc = "fallback"
     /\ searchDocumentsReturns(s, env,
          searchDocuments(c.allDocs, index, embeddingPipeline, c.query, c.size, env))
     /\ UNCHANGED <<loading, server, initializationAttempted, embeddingPipeline, apiKey, now,
                    index>>

(***************************************************************************)
(* POST /ask after the retrieval.                                          *)
(***************************************************************************)
\* the handler in slot a sends its response and ends
AskResponds(a, aiResponse) ==
  LET h == inflight.asks[a]
  IN /\ ask' = [h EXCEPT !.pc = "done"]
     /\ response' = AskResponse(aiResponse, h.documents)
     /\ inflight' = [inflight EXCEPT !.asks[a] = IdleAsk]

\* the 1000 ms timer of generateMockResponse fires
MockTimerFires(a) ==
  LET h == inflight.asks[a]
  IN /\ h.pc = "mockTimer"
     /\ AskResponds(a, generateMockResponse(h.question, h.documents))
     /\ call' = NoCall
     /\ op' = NoOp
     /\ UNCHANGED <<loading, server, initializationAttempted, embeddingPipeline, apiKey, now,
                    index>>

\* messages.create resolves; content[0] is a text block or another block
GeneratorResolves(a, firstBlockIsText) ==
  LET h == inflight.asks[a]
  IN /\ h.pc = "generating"
     /\ ask' = [h EXCEPT !.pc = "done", !.generator = "resolved"]
     /\ response' = AskResponse(GeneratedResponse(h.documents, firstBlockIsText), h.documents)
     /\ inflight' = [inflight EXCEPT !.asks[a] = IdleAsk]
     /\ call' = NoCall
     /\ op' = NoOp
     /\ UNCHANGED <<loading, server, initializationAttempted, embeddingPipeline, apiKey, now,
                    index>>

\* messages.create rejects (network, quota, timeout raised by the client), or
\* resolves with an empty content array so that content[0].type throws: the
\* catch block calls generateMockResponse, which awaits its timer
GeneratorFails(a) ==
  LET h == inflight.asks[a]
  IN /\ h.pc = "generating"
     /\ ask' = [h EXCEPT !.pc = "mockTimer", !.generator = "rejected"]
     /\ inflight' = [inflight EXCEPT !.asks[a] = ask']
     /\ response' = NoResponse
     /\ call' = NoCall
     /\ op' = NoOp
     /\ UNCHANGED <<loading, server, initializationAttempted, embeddingPipeline, apiKey, now,
                    index>>

\* messages.create never settles: the handler stays at its await for ever.
\* It is counted in hung and followed no further.
GeneratorHangs(a) ==
  LET h == inflight.asks[a]
  IN /\ h.pc = "generating"
     /\ inflight.hung < MaxHung
     /\ ask' = [h EXCEPT !.generator = "never"]
     /\ inflight' = [inflight EXCEPT !.asks[a] = IdleAsk, !.hung = @ + 1]
     /\ response' = NoResponse
     /\ call' = NoCall
     /\ op' = NoOp
     /\ UNCHANGED <<loading, server, initializationAttempted, embeddingPipeline, apiKey, now,
                    index>>

\* the steps of the indexDocument calls in progress
WriteSteps ==
  \/ \E w \in 1..MaxWrites, embedOk \in BOOLEAN : DocumentEmbeddingSettles(w, embedOk)
  \/ \E w \in 1..MaxWrites, storeOk \in BOOLEAN : IndexRequestAnswered(w, storeOk)

\* the steps of the searchDocuments calls in progress
SearchSteps ==
  \/ \E s \in 1..MaxSearches, embedOk \in BOOLEAN : QueryEmbeddingSettles(s, embedOk)
  \/ \E s \in 1..MaxSearches, allDocsOk \in BOOLEAN : AllDocsAnswered(s, allDocsOk)
  \/ \E s \in 1..MaxSearches, keywordOk \in BOOLEAN : KeywordAnswered(s, keywordOk)
  \/ \E s \in 1..MaxSearches, fallbackOk \in BOOLEAN : FallbackAnswered(s, fallbackOk)

\* the steps of the /ask handlers past their retrieval
AskSteps ==
  \/ \E a \in 1..MaxAsks : MockTimerFires(a)
  \/ \E a \in 1..MaxAsks, t \in BOOLEAN : GeneratorResolves(a, t)
  \/ \E a \in 1..MaxAsks : GeneratorFails(a)
  \/ \E a \in 1..MaxAsks : GeneratorHangs(a)

\* The whole program: startServer, the requests and direct calls that can
\* arrive, and the steps of what is in progress.
Next ==
  \/ StartSteps
  \/ \E d \in DocIds : indexDocument(d)
  \/ \E d \in DocIds : IngestDocument(d)
  \/ \E q \in Queries, size \in 1..MaxLimit : Retrieve(q, size)
  \/ \E q \in Queries : PostSearch(q)
  \/ \E q \in Queries : PostAsk(q)
  \/ WriteSteps
  \/ SearchSteps
  \/ AskSteps

Spec == Init /\ [][Next]_vars

\* Retrieval on its own: the index is written while direct calls and
\* POST /search read it.
SearchNext ==
  \/ StartSteps
  \/ \E d \in DocIds : indexDocument(d)
  \/ \E q \in Queries, size \in 1..MaxLimit : Retrieve(q, size)
  \/ \E q \in Queries : PostSearch(q)
  \/ WriteSteps
  \/ SearchSteps

SearchSpec == Init /\ [][SearchNext]_vars

\* The /ask flow on its own: the index is written while POST /ask handlers
\* retrieve and generate.
AskNext ==
  \/ StartSteps
  \/ \E d \in DocIds : indexDocument(d)
  \/ \E q \in Queries : PostAsk(q)
  \/ WriteSteps
  \/ SearchSteps
  \/ AskSteps

AskSpec == Init /\ [][AskNext]_vars

\* The event loop runs every handler step that is ready: a store, a search
\* and an /ask handler each go on while others run. Whether the generator
\* settles is up to the generator (GeneratorHangs).
FairSpec ==
  /\ Init /\ [][AskNext]_vars
  /\ WF_vars(WriteSteps) /\ WF_vars(SearchSteps) /\ WF_vars(AskSteps)

(***************************************************************************)
(* Every variable but op, as in Init with no key configured: the           *)
(* specifications of single service methods start from it.                 *)
(***************************************************************************)
IdleProcess ==
  /\ server = "starting"
  /\ initializationAttempted = FALSE
  /\ embeddingPipeline = "null"
  /\ apiKey = FALSE
  /\ now = 0
  /\ index = [d \in DocIds |-> "absent"]
  /\ inflight = NoneInFlight
  /\ call = NoCall
  /\ ask = IdleAsk
  /\ response = NoResponse
  /\ loading = FALSE

(***************************************************************************)
(* Fusion on given signals: steps 4 to 7 of searchDocuments for documents  *)
(* 1..n that all carry an embedding, sims[d] being the cosine similarity   *)
(* of d and raws[d] its keyword _score (0: no keyword hit).  The fusion is *)
(* run twice, on the signals as drawn and with one signal of one document  *)
(* raised.                                                                 *)
(***************************************************************************)
SimValues == {-500, 0, 100}
KeywordValues == {0, 500, 10000, 25000}

SignalVectorResults(sims) ==
  SortByScoreDesc([d \in 1..Cardinality(DOMAIN sims) |-> SearchResult(d, sims[d])])

SignalKeywordResults(raws, size) ==
  LET ids == FilterIds(1, Cardinality(DOMAIN raws), [d \in DOMAIN raws |-> raws[d] > 0])
      hits == Slice(SortByScoreDesc([i \in 1..Len(ids) |->
                                       [id |-> ids[i], score |-> raws[ids[i]]]]),
                    size * 2)
  IN [i \in 1..Len(hits) |-> SearchResult(hits[i].id, NormalizedKeywordScore(hits[i].score))]

FuseSignals(sims, raws, size) ==
  LET vectorResults == SignalVectorResults(sims)
      keywordResults == SignalKeywordResults(raws, size)
  IN [path |-> "hybrid", threw |-> FALSE,
      vectorResults |-> vectorResults, keywordResults |-> keywordResults,
      results |-> FinalResults(CombinedResults(vectorResults, keywordResults, size), size)]

FusionInputs ==
  {[name |-> "fusion", stage |-> "input", sims |-> sims, raws |-> raws, size |-> size,
    chunk |-> c, signal |-> sig, raised |-> v, base |-> NoOut, after |-> NoOut] :
     sims \in [1..NumChunks -> SimValues], raws \in [1..NumChunks -> KeywordValues],
     size \in 1..MaxLimit, c \in 1..NumChunks, sig \in {"vector", "keyword"},
     v \in SimValues \cup KeywordValues}

FusionInit ==
  /\ IdleProcess
  /\ op \in {i \in FusionInputs :
               IF i.signal = "vector"
               THEN i.raised \in SimValues /\ i.raised > i.sims[i.chunk]
               ELSE i.raised \in KeywordValues /\ i.raised > i.raws[i.chunk]}

FuseBaseAndRaised ==
  /\ op.name = "fusion"
  /\ op.stage = "input"
  /\ op' = [op EXCEPT
              !.stage = "done",
              !.base = FuseSignals(op.sims, op.raws, op.size),
              !.after = IF op.signal = "vector"
                        THEN FuseSignals([op.sims EXCEPT ![op.chunk] = op.raised],
                                         op.raws, op.size)
                        ELSE FuseSignals(op.sims,
                                         [op.raws EXCEPT ![op.chunk] = op.raised],
                                         op.size)]
  /\ UNCHANGED <<server, initializationAttempted, embeddingPipeline, apiKey, now, index, call,
                 ask, response, loading, inflight>>

FusionSpec == FusionInit /\ [][FuseBaseAndRaised]_vars

(***************************************************************************)
(* Strings are sequences of one-character strings.                         *)
(***************************************************************************)
IsWhitespace(c) == c \in {" ", "\n"}

RECURSIVE trimStart(_)
trimStart(s) == IF s = <<>> \/ ~IsWhitespace(Head(s)) THEN s ELSE trimStart(Tail(s))

RECURSIVE trimEnd(_)
trimEnd(s) ==
  IF s = <<>> \/ ~IsWhitespace(s[Len(s)]) THEN s ELSE trimEnd(SubSeq(s, 1, Len(s) - 1))

trim(s) == trimEnd(trimStart(s))

LowerChar(c) == CASE c = "A" -> "a" [] c = "P" -> "p" [] OTHER -> c

toLowerCase(s) == [i \in 1..Len(s) |-> LowerChar(s[i])]

(***************************************************************************)
(* EmbeddingService and opensearchService.indexDocument called directly,   *)
(* in any order: initialize is split at its await of pipeline() and        *)
(* generateEmbedding at its await of the model, so that other calls can    *)
(* arrive and run while they wait.                                         *)
(***************************************************************************)
NotInitializedError == "Embedding model not initialized. Check server startup logs."
EmptyTextError == "Empty text provided"
ModelError == "pipeline rejected"
AlreadyAttemptedError == "Embedding service initialization already attempted"
\* `Embedding model initialization failed: ${error.message}`, as the pieces
\* the template string concatenates
LoadFailedError(message) == <<"Embedding model initialization failed: ", message>>

\* the messages of the errors pipeline() rejects with
LoadMessages == {"model download failed", ""}

EmbedChars == {" ", "A", "b"}
EmbedTexts == UNION {[1..n -> EmbedChars] : n \in 0..MaxEmbedLen}


initializeCall ==
  LET entry == InitializeEntry(initializationAttempted)
  IN /\ op' = [name |-> "initialize", threw |-> (entry = "throws"),
               error |-> IF entry = "throws" THEN AlreadyAttemptedError ELSE "",
               attemptedBefore |-> initializationAttempted,
               pipelineBefore |-> embeddingPipeline, loadingBefore |-> loading]
     /\ IF entry = "loads"
        THEN /\ initializationAttempted' = TRUE
             /\ loading' = TRUE
        ELSE UNCHANGED <<initializationAttempted, loading, inflight>>
     /\ UNCHANGED <<server, embeddingPipeline, apiKey, now, index, call, ask, response, inflight>>

\* pipeline() resolves: the first initialize call returns
initializeLoaded ==
  /\ loading
  /\ loading' = FALSE
  /\ embeddingPipeline' = "loaded"
  /\ op' = [name |-> "initializeSettled", threw |-> FALSE, error |-> ""]
  /\ UNCHANGED <<server, initializationAttempted, apiKey, now, index, call, ask, response,
                 inflight>>

\* pipeline() rejects: the first initialize call throws
initializeLoadFails(message) ==
  /\ loading
  /\ loading' = FALSE
  /\ embeddingPipeline' = "null"
  /\ op' = [name |-> "initializeSettled", threw |-> TRUE, error |-> LoadFailedError(message)]
  /\ UNCHANGED <<server, initializationAttempted, apiKey, now, index, call, ask, response,
                 inflight>>

\* Variant: the empty text is handed to the model like any other.
generateEmbeddingUnchecked(pipeline, text, modelOk) ==
  IF pipeline # "loaded"
  THEN [threw |-> TRUE, error |-> NotInitializedError, vector |-> FALSE, modelCalls |-> 0]
  ELSE IF modelOk
       THEN [threw |-> FALSE, error |-> "", vector |-> TRUE, modelCalls |-> 1]
       ELSE [threw |-> TRUE, error |-> ModelError, vector |-> FALSE, modelCalls |-> 1]

\* generateEmbedding: whether it throws and with what, whether it returns a
\* vector, and how often it calls the pipeline
generateEmbeddingOutcome(pipeline, text, modelOk) ==
  IF pipeline # "loaded"
  THEN [threw |-> TRUE, error |-> NotInitializedError, vector |-> FALSE, modelCalls |-> 0]
  ELSE LET cleanText == toLowerCase(trim(text))
       IN IF Len(cleanText) = 0
          THEN [threw |-> TRUE, error |-> EmptyTextError, vector |-> FALSE, modelCalls |-> 0]
          ELSE IF modelOk
               THEN [threw |-> FALSE, error |-> "", vector |-> TRUE, modelCalls |-> 1]
               ELSE [threw |-> TRUE, error |-> ModelError, vector |-> FALSE, modelCalls |-> 1]

\* generateEmbedding(text) is called: it throws at once without a pipeline
\* and on an empty text, and waits for the model otherwise
generateEmbedding(text) ==
  LET e == FreeSlot(inflight.embeds)
      entry == generateEmbeddingOutcome(embeddingPipeline, text, TRUE)
  IN /\ HasFree(inflight.embeds)
     /\ IF entry.modelCalls = 0
        THEN /\ op' = [name |-> "generateEmbedding", text |-> text,
                       pipeline |-> embeddingPipeline, out |-> entry]
             /\ UNCHANGED inflight
        ELSE /\ op' = NoOp
             /\ inflight' = [inflight EXCEPT
                               !.embeds[e] = [pc |-> "model", text |-> text,
                                              pipeline |-> embeddingPipeline]]
     /\ UNCHANGED <<server, initializationAttempted, embeddingPipeline, apiKey, now, index, call,
                    ask, response, loading>>

\* the model answers the call in slot e, or rejects: generateEmbedding
\* returns the vector or rethrows
EmbeddingModelAnswers(e, modelOk) ==
  LET r == inflight.embeds[e]
  IN /\ r.pc = "model"
     /\ op' = [name |-> "generateEmbedding", text |-> r.text, pipeline |-> r.pipeline,
               out |-> generateEmbeddingOutcome(r.pipeline, r.text, modelOk)]
     /\ inflight' = [inflight EXCEPT !.embeds[e] = IdleEmbed]
     /\ UNCHANGED <<server, initializationAttempted, embeddingPipeline, apiKey, now, index, call,
                    ask, response, loading>>

ServiceInit ==
  /\ IdleProcess
  /\ op = NoOp

ServiceNext ==
  \/ initializeCall
  \/ initializeLoaded
  \/ \E message \in LoadMessages : initializeLoadFails(message)
  \/ \E text \in EmbedTexts : generateEmbedding(text)
  \/ \E e \in 1..MaxEmbeds, modelOk \in BOOLEAN : EmbeddingModelAnswers(e, modelOk)
  \/ \E d \in DocIds : indexDocumentCall(d, "direct", 0)
  \/ WriteSteps

ServiceSpec == ServiceInit /\ [][ServiceNext]_vars

(***************************************************************************)
(* FileProcessor: cleanExtractedText, chunkText and processText.           *)
(***************************************************************************)
DefaultMaxChunkSize == 1000

\* sep occurs in s at position i
MatchAt(s, sep, i) == i + Len(sep) - 1 <= Len(s) /\ SubSeq(s, i, i + Len(sep) - 1) = sep

\* the first position from i on where sep occurs, 0 when there is none
NextMatch(s, sep, i) ==
  LET found == {j \in i..Len(s) : MatchAt(s, sep, j)}
  IN IF found = {} THEN 0 ELSE CHOOSE j \in found : \A k \in found : j <= k

\* String.prototype.split with a non-empty separator: the pieces between the
\* occurrences of sep found from left to right, reading s from position i
RECURSIVE SplitFrom(_, _, _)
SplitFrom(s, sep, i) ==
  LET j == NextMatch(s, sep, i)
  IN IF j = 0 THEN <<SubSeq(s, i, Len(s))>>
     ELSE <<SubSeq(s, i, j - 1)>> \o SplitFrom(s, sep, j + Len(sep))

split(s, sep) == SplitFrom(s, sep, 1)

\* .filter(p => p.trim().length > 0)
IsNonBlank(p) == Len(trim(p)) > 0
FilterNonBlank(pieces) == SelectSeq(pieces, IsNonBlank)

\* text.substring(0, n)
substring0(text, n) == SubSeq(text, 1, Min(n, Len(text)))

ParagraphSeparator == <<"\n", "\n">>
SentenceSeparator == <<".", " ">>

\* if (currentChunk.trim().length > 0) { chunks.push(currentChunk.trim()); currentChunk = ''; }
PushCurrent(st) ==
  IF Len(trim(st.currentChunk)) > 0
  THEN [chunks |-> Append(st.chunks, trim(st.currentChunk)), currentChunk |-> <<>>]
  ELSE st

\* the loop over the sentences of a paragraph longer than maxChunkSize
RECURSIVE PackSentences(_, _, _, _)
PackSentences(sentences, j, st, maxChunkSize) ==
  IF j > Len(sentences) THEN st
  ELSE LET sentence == sentences[j]
           flushed == IF Len(st.currentChunk) + Len(sentence) > maxChunkSize
                      THEN PushCurrent(st) ELSE st
       IN PackSentences(sentences, j + 1,
                        [flushed EXCEPT !.currentChunk = @ \o sentence \o SentenceSeparator],
                        maxChunkSize)

\* the loop over the paragraphs
RECURSIVE PackParagraphs(_, _, _, _)
PackParagraphs(paragraphs, i, st, maxChunkSize) ==
  IF i > Len(paragraphs) THEN st
  ELSE LET paragraph == paragraphs[i]
           next ==
             IF Len(st.currentChunk) + Len(paragraph) > maxChunkSize
             THEN LET flushed == PushCurrent(st)
                  IN IF Len(paragraph) > maxChunkSize
                     THEN PackSentences(FilterNonBlank(split(paragraph, SentenceSeparator)),
                                        1, flushed, maxChunkSize)
                     ELSE [flushed EXCEPT !.currentChunk = paragraph]
             ELSE [st EXCEPT !.currentChunk =
                     @ \o (IF Len(@) > 0 THEN ParagraphSeparator ELSE <<>>) \o paragraph]
       IN PackParagraphs(paragraphs, i + 1, next, maxChunkSize)

chunkText(text, maxChunkSize) ==
  LET paragraphs == FilterNonBlank(split(text, ParagraphSeparator))
      packed == PackParagraphs(paragraphs, 1, [chunks |-> <<>>, currentChunk |-> <<>>],
                               maxChunkSize)
      chunks == PushCurrent(packed).chunks
  IN IF Len(chunks) = 0 THEN <<substring0(text, maxChunkSize)>> ELSE chunks

\* cleanExtractedText, over texts written with the characters of FileWords.
\* .replace(/\s+/g, ' '): every run of whitespace becomes one space
CollapseWhitespace(s) ==
  LET first == FilterIds(1, Len(s),
                 [i \in 1..Len(s) |->
                    ~IsWhitespace(s[i]) \/ i = 1 \/ ~IsWhitespace(s[i - 1])])
  IN SubSeq([k \in 1..Len(first) |->
               IF IsWhitespace(s[first[k]]) THEN " " ELSE s[first[k]]],
            1, Len(first))

IsDigit(c) == c \in {"0", "1"}

RECURSIVE SkipDigits(_)
SkipDigits(s) == IF s = <<>> \/ ~IsDigit(Head(s)) THEN s ELSE SkipDigits(Tail(s))

PagePrefix == <<"p", "a", "g", "e", " ">>

\* /Page \d+/i matches at position i of s
PageMatchAt(s, i) ==
  /\ i >= 1
  /\ i + Len(PagePrefix) <= Len(s)
  /\ toLowerCase(SubSeq(s, i, i + Len(PagePrefix) - 1)) = PagePrefix
  /\ IsDigit(s[i + Len(PagePrefix)])

\* position k of s lies in a match of /Page \d+/gi: in its "Page " or in the
\* digits that follow it
InPageMatch(s, k) ==
  \/ \E i \in (k - Len(PagePrefix) + 1)..k : PageMatchAt(s, i)
  \/ /\ IsDigit(s[k])
     /\ \E i \in 1..(k - Len(PagePrefix)) :
          /\ PageMatchAt(s, i)
          /\ \A m \in (i + Len(PagePrefix))..k : IsDigit(s[m])

\* .replace(/Page \d+/gi, '')
RemovePageNumbers(s) ==
  LET kept == FilterIds(1, Len(s), [k \in 1..Len(s) |-> ~InPageMatch(s, k)])
  IN SubSeq([k \in 1..Len(kept) |-> s[kept[k]]], 1, Len(kept))

\* .replace(/^\d+\s*$/gm, ''): a line of digits and trailing whitespace is
\* emptied; after the first replacement the text is a single line
RemoveNumberLines(s) ==
  IF s # <<>> /\ IsDigit(Head(s)) /\ trim(SkipDigits(s)) = <<>> /\ "\n" \notin {s[i] : i \in 1..Len(s)}
  THEN <<>> ELSE s

\* The remaining replacements cannot match: /\n\s*\n/ needs a line break,
\* which the first replacement removed, and the navigation and cookie phrases
\* need letters that FileWords does not have.
cleanExtractedText(text) ==
  trim(RemoveNumberLines(RemovePageNumbers(CollapseWhitespace(text))))

\* processText: the content check, the cleaning and the chunking
processTextOutcome(content) ==
  IF Len(trim(content)) = 0
  THEN [threw |-> TRUE, content |-> <<>>, chunks |-> <<>>]
  ELSE LET cleanContent == cleanExtractedText(content)
       IN [threw |-> FALSE, content |-> cleanContent,
           chunks |-> chunkText(cleanContent, DefaultMaxChunkSize)]

TextChars == {"a", ".", " ", "\n"}
Texts == UNION {[1..n -> TextChars] : n \in 0..MaxTextLen}

FileWords == {<<"P", "a", "g", "e", " ", "1">>, <<"1">>, <<"a">>, <<" ">>, <<"\n">>}

RECURSIVE Flatten(_)
Flatten(words) == IF words = <<>> THEN <<>> ELSE Head(words) \o Flatten(Tail(words))

FileContents == {Flatten(ws) : ws \in UNION {[1..n -> FileWords] : n \in 0..MaxWords}}

ChunkInit ==
  /\ IdleProcess
  /\ op \in {[name |-> "chunkText", stage |-> "input", text |-> text,
              maxChunkSize |-> maxChunkSize, threw |-> FALSE, chunks |-> <<>>] :
               text \in Texts, maxChunkSize \in 1..MaxChunkSize}
            \cup
            {[name |-> "processText", stage |-> "input", text |-> content,
              maxChunkSize |-> DefaultMaxChunkSize, threw |-> FALSE, chunks |-> <<>>] :
               content \in FileContents}

chunkTextCall ==
  /\ op.name = "chunkText"
  /\ op.stage = "input"
  /\ op' = [op EXCEPT !.stage = "done", !.chunks = chunkText(op.text, op.maxChunkSize)]
  /\ UNCHANGED <<server, initializationAttempted, embeddingPipeline, apiKey, now, index, call,
                 ask, response, loading, inflight>>

processText ==
  /\ op.name = "processText"
  /\ op.stage = "input"
  /\ LET out == processTextOutcome(op.text)
     IN op' = [op EXCEPT !.stage = "done", !.threw = out.threw, !.chunks = out.chunks]
  /\ UNCHANGED <<server, initializationAttempted, embeddingPipeline, apiKey, now, index, call,
                 ask, response, loading, inflight>>

ChunkNext ==
  \/ chunkTextCall
  \/ processText

ChunkSpec == ChunkInit /\ [][ChunkNext]_vars

(***************************************************************************)
(* searchDocuments on an index of about a hundred documents.  The last     *)
(* document has an embedding; the earlier documents of one slot (or of     *)
(* none) were indexed while the embedding failed.                          *)
(***************************************************************************)
CorpusSizes == (AllDocsFetchSize - 1)..MaxCorpus

Corpus(n, vectorless) ==
  [d \in 1..n |-> IF d < n /\ DocSlot(d) = vectorless THEN "noemb" ELSE "emb"]

CorpusInit ==
  /\ server = "listening"
  /\ initializationAttempted = TRUE
  /\ embeddingPipeline = "loaded"
  /\ apiKey = FALSE
  /\ now = 0
  /\ index \in {Corpus(n, vectorless) : n \in CorpusSizes, vectorless \in 0..3}
  /\ inflight = NoneInFlight
  /\ call = NoCall
  /\ ask = IdleAsk
  /\ response = NoResponse
  /\ loading = FALSE
  /\ op = NoOp

\* direct searchDocuments calls on the stored corpus
CorpusNext ==
  \/ \E q \in Queries, size \in 1..MaxLimit : Retrieve(q, size)
  \/ SearchSteps

CorpusSpec == CorpusInit /\ [][CorpusNext]_vars

\* startServer with the handlers of the ingestion, search and ask routes;
\* the process has an API key or not
StartInit == Init

StartNext ==
  \/ StartSteps
  \/ \E d \in DocIds : IngestDocument(d)
  \/ \E q \in 1..StartQueries : PostSearch(q)
  \/ \E q \in 1..StartQueries : PostAsk(q)
  \/ WriteSteps
  \/ SearchSteps
  \/ AskSteps

StartSpec == StartInit /\ [][StartNext]_vars

(***************************************************************************)
(* The ingestion routes: POST /documents, /documents/upload (text files)   *)
(* and /documents/scrape.  Each stores one document under the id           *)
(* Date.now().toString(); the clock advances between requests or not.      *)
(***************************************************************************)
Repeat(c, n) == [i \in 1..n |-> c]

TwoSentences == Repeat("a", LongSentence) \o SentenceSeparator \o Repeat("a", LongSentence)

\* the text of an uploaded file: empty, cleaned to nothing, short, long
UploadedFiles == {<<>>, <<"1">>, <<"a">>, TwoSentences}

\* the text of the first content element of a scraped page
MinMainContent == 100
ScrapedPages == {<<"a">>, Repeat("a", MinMainContent + 1), TwoSentences}

\* extractMainContent: the text of the first element with more than 100
\* characters of trimmed text, '' when there is none
extractMainContent(elementText) ==
  IF Len(trim(elementText)) > MinMainContent THEN elementText ELSE <<>>

\* processWebPage after the page was fetched: the content check, the
\* cleaning and the chunking
processWebPageOutcome(elementText) == processTextOutcome(extractMainContent(elementText))


\* what a handler that answers without storing anything leaves in op
RouteAnswer(route, status) ==
  [name |-> route, status |-> status, id |-> 0, chunks |-> 0, embedded |-> FALSE,
   before |-> "absent"]

\* POST /documents: the body is validated, the id is Date.now().toString()
\* and indexDocument is called
PostDocuments(hasTitle, hasContent) ==
  /\ CanAccept
  /\ IF ~hasTitle \/ ~hasContent
     THEN /\ op' = RouteAnswer("documents", BadRequest)
          /\ call' = NoCall
          /\ ask' = IdleAsk
          /\ response' = NoResponse
          /\ UNCHANGED <<server, initializationAttempted, embeddingPipeline, apiKey, now, index,
                         loading, inflight>>
     ELSE indexDocumentCall(now, "documents", 0)

\* a handler that processes its input first runs to its await of
\* processFile or processUrl
ProcessingStarts(route, processed) ==
  LET w == FreeSlot(inflight.writes)
  IN /\ CanAccept
     /\ HasFree(inflight.writes)
     /\ inflight' = [inflight EXCEPT
                       !.writes[w] = [IdleWrite EXCEPT
                                        !.pc = "processing", !.caller = route,
                                        !.threw = processed.threw,
                                        !.chunks = IF processed.threw THEN 0
                                                   ELSE Len(processed.chunks)]]
     /\ Quiet
     /\ UNCHANGED <<server, initializationAttempted, embeddingPipeline, apiKey, now, index,
                    loading>>

\* POST /documents/upload with a text file
PostUpload(file) == ProcessingStarts("upload", processTextOutcome(file))

\* POST /documents/scrape with a valid URL whose page is fetched
PostScrape(page) == ProcessingStarts("scrape", processWebPageOutcome(page))

\* processFile or processUrl settles: the handler answers 500 when it threw;
\* otherwise the id is Date.now().toString() and indexDocument is called
ProcessingSettles(w) ==
  LET r == inflight.writes[w]
  IN /\ r.pc = "processing"
     /\ IF r.threw
        THEN /\ op' = RouteAnswer(r.caller, ServerError)
             /\ inflight' = [inflight EXCEPT !.writes[w] = IdleWrite]
        ELSE /\ op' = NoOp
             /\ inflight' = [inflight EXCEPT
                               !.writes[w].pc = IF embeddingPipeline = "loaded"
                                                THEN "embedding" ELSE "indexing",
                               !.writes[w].doc = now,
                               !.writes[w].pipeline = embeddingPipeline]
     /\ call' = NoCall
     /\ ask' = IdleAsk
     /\ response' = NoResponse
     /\ UNCHANGED <<server, initializationAttempted, embeddingPipeline, apiKey, now, index,
                    loading>>

\* a millisecond passes
ClockTick ==
  /\ now < MaxClock
  /\ now' = now + 1
  /\ UNCHANGED <<server, initializationAttempted, embeddingPipeline, apiKey, index, call, ask,
                 response, loading, op, inflight>>

IngestInit ==
  /\ server = "listening"
  /\ initializationAttempted = TRUE
  /\ embeddingPipeline = "loaded"
  /\ apiKey = FALSE
  /\ now = 1
  /\ index = [t \in 1..MaxClock |-> "absent"]
  /\ inflight = NoneInFlight
  /\ call = NoCall
  /\ ask = IdleAsk
  /\ response = NoResponse
  /\ loading = FALSE
  /\ op = NoOp

IngestNext ==
  \/ \E hasTitle, hasContent \in BOOLEAN : PostDocuments(hasTitle, hasContent)
  \/ \E file \in UploadedFiles : PostUpload(file)
  \/ \E page \in ScrapedPages : PostScrape(page)
  \/ \E w \in 1..MaxWrites : ProcessingSettles(w)
  \/ WriteSteps
  \/ ClockTick

IngestSpec == IngestInit /\ [][IngestNext]_vars

(***************************************************************************)
(* The index shared with a writer that stores embeddings of another        *)
(* length (ensureIndex leaves an existing index as it is).                 *)
(***************************************************************************)
ForeignWrite(d) ==
  /\ index' = [index EXCEPT ![d] = "embOther"]
  /\ call' = NoCall
  /\ ask' = IdleAsk
  /\ response' = NoResponse
  /\ op' = [name |-> "foreignWrite"]
  /\ UNCHANGED <<server, initializationAttempted, embeddingPipeline, apiKey, now, loading,
                 inflight>>

MismatchNext ==
  \/ StartSteps
  \/ \E d \in DocIds : indexDocument(d)
  \/ \E d \in 1..MaxForeign : ForeignWrite(d)
  \/ \E q \in Queries, size \in 1..MaxLimit : Retrieve(q, size)
  \/ WriteSteps
  \/ SearchSteps

MismatchSpec == Init /\ [][MismatchNext]_vars

(***************************************************************************)
(* opensearchService.searchDocumentsWithFilters (claude.ts): the hybrid     *)
(* search over the documents that pass the filters, with searchDocuments    *)
(* as its fallback.                                                         *)
(***************************************************************************)
\* metadata.fileType as stored: none for a manual entry, 'webpage' for a
\* scraped page, getFileType(originalName) for an uploaded file
DocFileType(d) ==
  CASE DocSlot(d) = 1 -> ""
    [] DocSlot(d) = 2 -> "webpage"
    [] OTHER -> "pdf"

\* the age of the stored timestamp in days when the search is made
DocAgeDays(d) ==
  CASE DocSlot(d) = 1 -> 1
    [] DocSlot(d) = 2 -> 10
    [] OTHER -> 400

WeekDays == 7
MonthDays == 30
YearDays == 365

\* getDateRangeFilter: the days back of startDate, 0 for no filter
DateRangeDays(dateRange) ==
  CASE dateRange = "week" -> WeekDays
    [] dateRange = "month" -> MonthDays
    [] dateRange = "year" -> YearDays
    [] OTHER -> 0

LowerFileType(type) == CASE type = "PDF" -> "pdf" [] type = "Text" -> "text" [] OTHER -> type

\* the lower-case names that an object literal inherits from
\* Object.prototype: fileTypeMapping[name] is then a value that is not
\* undefined and cannot be spread
InheritedNames == {"constructor", "__proto__"}

\* fileTypeMapping[type.toLowerCase()], {} when undefined
FileTypeMapping(type) ==
  CASE LowerFileType(type) = "pdf" -> {"pdf"}
    [] LowerFileType(type) = "word" -> {"word"}
    [] LowerFileType(type) = "text" -> {"text", "markdown"}
    [] LowerFileType(type) = "webpage" -> {"webpage"}
    [] LowerFileType(type) = "manual" -> {"manual"}
    [] OTHER -> {}

\* getFileTypeFilter: mappedTypes, or the TypeError of
\* mappedTypes.push(...value) on an inherited value
MappedTypes(fileTypes) ==
  IF \E type \in fileTypes : LowerFileType(type) \in InheritedNames
  THEN [threw |-> TRUE, types |-> {}]
  ELSE [threw |-> FALSE, types |-> UNION {FileTypeMapping(type) : type \in fileTypes}]

\* a stored document passes the filter clauses of both queries: the range on
\* timestamp, the terms on metadata.fileType.keyword, the terms on
\* technology.keyword.  The mapping ensureIndex declares has technology as
\* a keyword without sub-field, so that in the index it creates the last
\* clause matches nothing; an index mapped dynamically has the sub-field.
PassesFilters(d, filters, technologyKeyword) ==
  /\ DateRangeDays(filters.dateRange) > 0 => DocAgeDays(d) <= DateRangeDays(filters.dateRange)
  /\ MappedTypes(filters.fileType).types # {} =>
       DocFileType(d) \in MappedTypes(filters.fileType).types
  /\ filters.technology # {} => technologyKeyword /\ DocTechnology(d) \in filters.technology

\* what the engine searches with the filter clauses in place
FilteredIndex(idx, filters, technologyKeyword) ==
  [d \in DOMAIN idx |-> IF PassesFilters(d, filters, technologyKeyword) THEN idx[d] ELSE "absent"]

\* a.title.localeCompare(b.title) as a rank
TitleRank(d) ==
  CASE DocSlot(d) = 1 -> 3
    [] DocSlot(d) = 2 -> 2
    [] OTHER -> 1

SortByTitle(s) ==
  LET keyed == [i \in 1..Len(s) |-> [id |-> i, score |-> 0 - TitleRank(s[i].id)]]
      sorted == SortByScoreDesc(keyed)
  IN [i \in 1..Len(s) |-> s[sorted[i].id]]

\* Step 7: sort by sortBy, then slice(0, size)
FinalFilteredResults(combined, sortBy, size) ==
  Slice(IF sortBy = "title" THEN SortByTitle(combined) ELSE SortByScoreDesc(combined), size)

\* Steps 3 to 7 of the filtered attempt: allDocs is what the filtered
\* match_all request was answered, idx the index when the filtered
\* multi_match request is answered
searchDocumentsWithFilters(allDocs, idx, q, filters, technologyKeyword, size) ==
  LET vectorResults == VectorResults(allDocs, q)
      keywordResults == KeywordResults(FilteredIndex(idx, filters, technologyKeyword), q, size)
  IN FinalFilteredResults(CombinedResults(vectorResults, keywordResults, size),
                          filters.sortBy, size)

\* the filters of a call: none, one of the three, or all three, sorted by
\* relevance or by title
FilterSets ==
  LET clauses ==
        {NoFilters}
        \cup {[NoFilters EXCEPT !.technology = t] :
                t \in {{"React"}, {"General", "Web Documentation"}}}
        \cup {[NoFilters EXCEPT !.fileType = ft] :
                ft \in {{"PDF"}, {"webpage", "Text"}, {"PDF", "constructor"}}}
        \cup {[NoFilters EXCEPT !.dateRange = dr] : dr \in {"week", "year"}}
        \cup {[NoFilters EXCEPT !.technology = {"General", "Web Documentation"},
                                !.fileType = {"PDF"}, !.dateRange = "year"]}
  IN {[c EXCEPT !.sortBy = sortBy] : c \in clauses, sortBy \in {"relevance", "title"}}

\* the catch block of the call r in slot f: searchDocuments(query, size) is
\* called and runs to its first await
FilteredFallsBack(f, r) ==
  /\ HasFree(inflight.calls)
  /\ inflight' = [searchDocumentsCall("filters", f, r.query, r.size) EXCEPT
                    !.filtered[f] = [r EXCEPT !.pc = "fallback"]]

\* the call in slot f starts and runs to its await of generateEmbedding,
\* which throws at once without a pipeline
searchDocumentsWithFiltersCall(f) ==
  LET r == [inflight.filtered[f] EXCEPT !.pc = "embedding"]
  IN /\ CanAccept
     /\ inflight.filtered[f].pc = "called"
     /\ IF embeddingPipeline = "loaded"
        THEN inflight' = [inflight EXCEPT !.filtered[f] = r]
        ELSE FilteredFallsBack(f, r)
     /\ Quiet
     /\ UNCHANGED <<server, initializationAttempted, embeddingPipeline, apiKey, now, index,
                    loading>>

\* generateEmbedding(query) settles: buildVectorSearchQuery runs and the
\* filtered match_all request is sent; or the embedding failed, or
\* getFileTypeFilter threw, and the catch block runs
FilteredEmbeddingSettles(f, embedOk) ==
  LET r == inflight.filtered[f]
  IN /\ r.pc = "embedding"
     /\ IF embedOk /\ ~MappedTypes(r.filters.fileType).threw
        THEN inflight' = [inflight EXCEPT !.filtered[f].pc = "allDocs"]
        ELSE FilteredFallsBack(f, r)
     /\ Quiet
     /\ UNCHANGED <<server, initializationAttempted, embeddingPipeline, apiKey, now, index,
                    loading>>

\* the filtered match_all request is answered with the index as it is now,
\* and the filtered multi_match request is sent; or it fails
FilteredAllDocsAnswered(f, allDocsOk) ==
  LET r == inflight.filtered[f]
  IN /\ r.pc = "allDocs"
     /\ IF allDocsOk
        THEN inflight' = [inflight EXCEPT
                           !.filtered[f].pc = "keyword",
                           !.filtered[f].allDocs =
                             FilteredIndex(index, r.filters, r.technologyKeyword)]
        ELSE FilteredFallsBack(f, r)
     /\ Quiet
     /\ UNCHANGED <<server, initializationAttempted, embeddingPipeline, apiKey, now, index,
                    loading>>

\* the filtered multi_match request is answered with the index as it is now
\* and steps 3 to 7 run; or it fails, or cosineSimilarity throws, and the
\* catch block runs
FilteredKeywordAnswered(f, keywordOk) ==
  LET r == inflight.filtered[f]
  IN /\ r.pc = "keyword"
     /\ IF keywordOk /\ ~VectorThrows(r.allDocs, r.query)
        THEN /\ op' = FilteredReturn(r, "filtered",
                        searchDocumentsWithFilters(r.allDocs, index, r.query, r.filters,
                                                   r.technologyKeyword, r.size))
             /\ inflight' = [inflight EXCEPT !.filtered[f] = IdleFiltered]
             /\ call' = NoCall
             /\ ask' = IdleAsk
             /\ response' = NoResponse
        ELSE /\ FilteredFallsBack(f, r)
             /\ Quiet
     /\ UNCHANGED <<server, initializationAttempted, embeddingPipeline, apiKey, now, index,
                    loading>>

\* the steps of the searchDocumentsWithFilters calls in progress before
\* their catch block
FilteredSteps ==
  \/ \E f \in 1..MaxFiltered, embedOk \in BOOLEAN : FilteredEmbeddingSettles(f, embedOk)
  \/ \E f \in 1..MaxFiltered, allDocsOk \in BOOLEAN : FilteredAllDocsAnswered(f, allDocsOk)
  \/ \E f \in 1..MaxFiltered, keywordOk \in BOOLEAN : FilteredKeywordAnswered(f, keywordOk)

\* the calls that can be made: query, filters and size, on an index with
\* or without the field technology.keyword
FilteredCalls ==
  {[IdleFiltered EXCEPT !.pc = "called", !.query = q, !.filters = filters, !.size = size,
                        !.technologyKeyword = technologyKeyword] :
     q \in Queries, filters \in FilterSets, size \in 1..MaxLimit,
     technologyKeyword \in BOOLEAN}

\* a running server, the documents stored before the call, and the call
\* that will be made
FilterInit ==
  /\ server = "listening"
  /\ initializationAttempted = TRUE
  /\ embeddingPipeline = "loaded"
  /\ apiKey = FALSE
  /\ now = 0
  /\ index \in {idx \in [DocIds -> {"absent", "noemb", "emb"}] :
                  \A d \in DocIds : idx[d] = "absent" <=> d <= StoredLater}
  /\ \E r \in FilteredCalls : inflight = [NoneInFlight EXCEPT !.filtered[1] = r]
  /\ call = NoCall
  /\ ask = IdleAsk
  /\ response = NoResponse
  /\ loading = FALSE
  /\ op = NoOp

\* a searchDocumentsWithFilters call while documents are stored
FilterNext ==
  \/ \E f \in 1..MaxFiltered : searchDocumentsWithFiltersCall(f)
  \/ \E d \in 1..StoredLater : indexDocument(d)
  \/ FilteredSteps
  \/ SearchSteps
  \/ WriteSteps

FilterSpec == FilterInit /\ [][FilterNext]_vars

(***************************************************************************)
(* The excerpts of searchDocuments: generateExcerpt,                       *)
(* generateExcerptFromHighlights and the content kept by the merge.        *)
(***************************************************************************)
ExcerptMaxLength == 300
WindowStep == 50
SentenceCutTenths == 7

Ellipsis == <<".", ".", ".">>
HighlightJoiner == <<" ", ".", ".", ".", " ">>
MarkOpen == <<"<", "m", "a", "r", "k", ">">>
MarkClose == <<"<", "/", "m", "a", "r", "k", ">">>

\* String.prototype.includes
includes(s, sub) == Len(sub) = 0 \/ \E i \in 1..Len(s) : MatchAt(s, sub, i)

\* s.replace(/<[^>]*>/g, ''): a character goes when a '<' at or before it is
\* followed by no '>' up to it and a '>' comes at or after it
StripTags(s) ==
  LET opens == {i \in 1..Len(s) : s[i] = "<"}
      closes == {j \in 1..Len(s) : s[j] = ">"}
      inTag(k) == /\ \E j \in closes : j >= k
                  /\ \E i \in opens : i <= k /\ \A j \in closes : j < i \/ j >= k
      kept == FilterIds(1, Len(s), [k \in 1..Len(s) |-> ~inTag(k)])
  IN IF opens = {} \/ closes = {} THEN s
     ELSE SubSeq([k \in 1..Len(kept) |-> s[kept[k]]], 1, Len(kept))

\* searchQuery.toLowerCase().split(/\s+/)
QueryWords(searchQuery) == split(CollapseWhitespace(toLowerCase(searchQuery)), <<" ">>)

\* s.substring(from, to) with 0-based offsets
substring(s, from, to) == SubSeq(s, from + 1, Min(to, Len(s)))

\* the window offsets of the loop: 0, 50, ... below length - maxLength
WindowOffsets(length, maxLength) ==
  {i \in 0..(length - maxLength - 1) : i % WindowStep = 0}

\* queryWords.filter(word => section.includes(word)).length
WindowMatches(section, queryWords) ==
  Cardinality({w \in 1..Len(queryWords) : includes(section, queryWords[w])})

\* bestPosition after the loop: the first offset with the most matches, 0
\* when no window has any
BestPosition(cleanContent, queryWords, maxLength) ==
  LET contentLower == toLowerCase(cleanContent)
      offsets == WindowOffsets(Len(cleanContent), maxLength)
      matches == [i \in offsets |->
                    WindowMatches(substring(contentLower, i, i + maxLength), queryWords)]
      best == {i \in offsets : matches[i] > 0 /\ \A k \in offsets : matches[k] <= matches[i]}
  IN IF best = {} THEN 0 ELSE CHOOSE i \in best : \A k \in best : i <= k

\* excerpt.lastIndexOf('.'), 0-based, -1 when there is none
lastIndexOfPeriod(s) ==
  LET at == {i \in 1..Len(s) : s[i] = "."}
  IN IF at = {} THEN -1 ELSE (CHOOSE i \in at : \A k \in at : k <= i) - 1

\* the excerpt cut at bestPosition: the sentence cut and the markers
ExcerptAt(content, cleanContent, bestPosition, maxLength) ==
  LET window == substring(cleanContent, bestPosition, bestPosition + maxLength)
      lastPeriod == lastIndexOfPeriod(window)
      excerpt == IF 10 * lastPeriod > maxLength * SentenceCutTenths
                 THEN substring(window, 0, lastPeriod + 1) ELSE window
      prefix == IF bestPosition > 0 THEN Ellipsis ELSE <<>>
      suffix == IF bestPosition + Len(excerpt) < Len(content) THEN Ellipsis ELSE <<>>
  IN prefix \o trim(excerpt) \o suffix

generateExcerpt(content, searchQuery, maxLength) ==
  LET cleanContent == StripTags(content)
  IN IF Len(cleanContent) <= maxLength THEN cleanContent
     ELSE ExcerptAt(content, cleanContent,
                    BestPosition(cleanContent, QueryWords(searchQuery), maxLength), maxLength)

\* highlights.content.join(' ... ')
RECURSIVE JoinSpans(_)
JoinSpans(spans) ==
  IF Len(spans) = 0 THEN <<>>
  ELSE IF Len(spans) = 1 THEN spans[1]
  ELSE spans[1] \o HighlightJoiner \o JoinSpans(Tail(spans))

\* spans is highlights.content, <<>> when the hit has no content highlight
generateExcerptFromHighlights(spans, fullContent, searchQuery) ==
  IF spans # <<>> THEN StripTags(JoinSpans(spans))
  ELSE generateExcerpt(fullContent, searchQuery, ExcerptMaxLength)

\* Step 6, the content of a keyword hit's entry: that of the vector entry
\* unless the keyword excerpt includes '<mark>', the keyword excerpt when the
\* hit is not among the vector entries
MergedContent(inVector, vectorContent, keywordContent) ==
  IF inVector
  THEN IF includes(keywordContent, MarkOpen) THEN keywordContent ELSE vectorContent
  ELSE keywordContent

\* the content of the fused result of a keyword hit
FusedContent(inVector, fullContent, spans, searchQuery) ==
  MergedContent(inVector,
                generateExcerpt(fullContent, searchQuery, ExcerptMaxLength),
                generateExcerptFromHighlights(spans, fullContent, searchQuery))

\* contents: filler with an "A", a "b" and a "." at chosen places (0: nowhere)
LongContent == 401
MarkedContent(length, pa, pb, pp) ==
  [i \in 1..length |-> IF i = pa THEN "A" ELSE IF i = pb THEN "b"
                       ELSE IF i = pp THEN "." ELSE "x"]

MarkPlaces == {0, 1, LongContent - 1}
PeriodPlaces == {0, ExcerptMaxLength - WindowStep}
ContentLengths == {MaxTextLen, ExcerptMaxLength, LongContent}

ExcerptContents ==
  {MarkedContent(n, pa, pb, pp) : n \in ContentLengths, pa \in MarkPlaces,
                                  pb \in MarkPlaces, pp \in PeriodPlaces}

\* queries of one to MaxWords words, separated by one space (the routes
\* refuse an empty query and searchDocuments leaves the hybrid steps on one)
ExcerptWords == {<<"a">>, <<"b">>}
RECURSIVE JoinWords(_)
JoinWords(words) ==
  IF Len(words) = 0 THEN <<>>
  ELSE IF Len(words) = 1 THEN words[1]
  ELSE words[1] \o <<" ">> \o JoinWords(Tail(words))

ExcerptQueries ==
  {JoinWords(ws) : ws \in UNION {[1..n -> ExcerptWords] : n \in 1..MaxWords}}

\* the highlights of a hit: none, one fragment, two fragments
HighlightSets ==
  {<<>>,
   <<MarkOpen \o <<"a">> \o MarkClose \o <<"x">>>>,
   <<<<"x">> \o MarkOpen \o <<"a">> \o MarkClose, MarkOpen \o <<"b">> \o MarkClose>>}

\* a call generateExcerpt(content, query) with the inputs drawn
generateExcerptCall ==
  /\ op.name = "input"
  /\ op' = [name |-> "generateExcerpt", content |-> op.content, query |-> op.query,
            excerpt |-> generateExcerpt(op.content, op.query, ExcerptMaxLength)]
  /\ UNCHANGED <<server, initializationAttempted, embeddingPipeline, apiKey, now, index, call,
                 ask, response, loading, inflight>>

\* a keyword hit with the inputs drawn, through step 5 and step 6
FuseKeywordHit ==
  /\ op.name = "input"
  /\ op' = [name |-> "fuse", inVector |-> op.inVector, content |-> op.content,
            spans |-> op.spans, query |-> op.query,
            excerpt |-> FusedContent(op.inVector, op.content, op.spans, op.query)]
  /\ UNCHANGED <<server, initializationAttempted, embeddingPipeline, apiKey, now, index, call,
                 ask, response, loading, inflight>>

ExcerptInit ==
  /\ IdleProcess
  /\ op \in {[name |-> "input", content |-> content, query |-> q, spans |-> spans,
              inVector |-> inVector] :
               content \in ExcerptContents, q \in ExcerptQueries, spans \in HighlightSets,
               inVector \in BOOLEAN}

ExcerptNext ==
  \/ generateExcerptCall
  \/ FuseKeywordHit

ExcerptSpec == ExcerptInit /\ [][ExcerptNext]_vars

(***************************************************************************)
(* Properties.                                                             *)
(***************************************************************************)
Called == call.out.path # "none"
Hybrid == call.out.path = "hybrid"
Results == call.out.results

\* the vector candidates that entered fusion and the keyword hits of the call
TopVector == Slice(call.out.vectorResults, call.size)
InVector(id) == id \in IdsOf(TopVector)
InKeyword(id) == id \in IdsOf(call.out.keywordResults)
SimilarityOf(id) == TopVector[CHOOSE i \in 1..Len(TopVector) : TopVector[i].id = id].score
KeywordScoreOf(id) ==
  call.out.keywordResults[CHOOSE i \in 1..Len(call.out.keywordResults) :
                            call.out.keywordResults[i].id = id].score

\* C1 (as claimed): every result returned by searchDocuments has a score in
\* [0,1].
C1_FusedScoreInUnitInterval ==
  \A i \in 1..Len(Results) : Results[i].score >= 0 /\ Results[i].score <= One

\* C2 (as claimed): a result hit by both signals scores at least what it would
\* score if hit by the vector signal only, and at least what it would score if
\* hit by the keyword signal only.
C2_DualOutranksEitherSingle ==
  Hybrid =>
    \A i \in 1..Len(Results) :
      InVector(Results[i].id) /\ InKeyword(Results[i].id) =>
        /\ Results[i].score >= VectorOnlyScore(SimilarityOf(Results[i].id))
        /\ Results[i].score >= KeywordOnlyScore(KeywordScoreOf(Results[i].id))

\* C2 (amended): a result hit by both signals scores at least what it would
\* score if hit by the vector signal only with the same similarity.
C2_DualOutranksVectorOnly ==
  Hybrid =>
    \A i \in 1..Len(Results) :
      InVector(Results[i].id) /\ InKeyword(Results[i].id) =>
        Results[i].score >= VectorOnlyScore(SimilarityOf(Results[i].id))

\* a hybrid call returned a dual-signal result that scores strictly above its
\* vector-only score and strictly below its keyword-only score
C2_Witness ==
  /\ Hybrid
  /\ \E i \in 1..Len(Results) :
       /\ InVector(Results[i].id) /\ InKeyword(Results[i].id)
       /\ Results[i].score > VectorOnlyScore(SimilarityOf(Results[i].id))
       /\ Results[i].score < KeywordOnlyScore(KeywordScoreOf(Results[i].id))

\* C3 (as claimed): score = 0.7 v + 0.3 k for a dual-signal result and
\* 0.5 times the sole signal for a vector-only or keyword-only result.
C3_FusionAsClaimed ==
  Hybrid =>
    \A i \in 1..Len(Results) :
      LET id == Results[i].id
      IN Results[i].score * 10 =
           IF InVector(id) /\ InKeyword(id)
           THEN 7 * SimilarityOf(id) + 3 * KeywordScoreOf(id)
           ELSE IF InVector(id) THEN 5 * SimilarityOf(id)
           ELSE 5 * KeywordScoreOf(id)

\* C3 (amended): score = min(0.7 v + 0.3 k, 1) for a dual-signal result,
\* 0.7 v for a vector-only result and 0.5 k for a keyword-only result, k being
\* _score / 10.
C3_FusionFormula ==
  Hybrid =>
    \A i \in 1..Len(Results) :
      LET id == Results[i].id
      IN Results[i].score * 10 =
           IF InVector(id) /\ InKeyword(id)
           THEN Min(7 * SimilarityOf(id) + 3 * KeywordScoreOf(id), 10000)
           ELSE IF InVector(id) THEN 7 * SimilarityOf(id)
           ELSE 5 * KeywordScoreOf(id)

\* a hybrid call returned a dual-signal, a vector-only (nonzero similarity)
\* and a keyword-only result together
C3_Witness ==
  /\ Hybrid
  /\ \E i, j, k \in 1..Len(Results) :
       /\ InVector(Results[i].id) /\ InKeyword(Results[i].id)
       /\ InVector(Results[j].id) /\ ~InKeyword(Results[j].id)
       /\ SimilarityOf(Results[j].id) # 0
       /\ ~InVector(Results[k].id) /\ InKeyword(Results[k].id)

\* an /ask handler past its retrieval
Retrieved(h) == h.pc \in {"mockTimer", "generating", "done"}

\* C4: an /ask whose retrieval is empty never calls messages.create, and it
\* ends with one of the two fixed no-documents answers, the no-documents
\* reasoning, no sources and totalSources 0.
C4_EmptyRetrievalIsTerminal ==
  /\ \A a \in 1..MaxAsks :
       LET h == inflight.asks[a]
       IN Retrieved(h) /\ Len(h.documents) = 0 =>
            h.pc = "mockTimer" /\ h.generatorCalls = 0 /\ h.generator = "notCalled"
  /\ Retrieved(ask) /\ Len(ask.documents) = 0 =>
       /\ ask.generatorCalls = 0
       /\ ask.generator = "notCalled"
       /\ ask.pc = (IF apiKey THEN "done" ELSE ask.pc)
       /\ ask.pc # "generating"
       /\ ask.pc = "done" =>
            /\ response.route = "ask" /\ response.status = 200
            /\ response.answer.text = (IF apiKey THEN NoDocsAnswerWithKey ELSE NoDocsAnswerMock)
            /\ response.reasoning.text = NoDocsReasoning
            /\ response.sources = <<>>
            /\ response.totalSources = 0

\* an /ask with a key configured ended on an empty retrieval
C4_Witness ==
  /\ apiKey
  /\ ask.pc = "done" /\ Len(ask.documents) = 0
  /\ response.route = "ask"

\* an /ask without a key ended on an empty retrieval once the timer fired
C4_WitnessMock ==
  /\ ~apiKey
  /\ ask.pc = "done" /\ Len(ask.documents) = 0
  /\ response.route = "ask"

\* C5: when the generation fails (messages.create rejects, or resolves with
\* a response whose first block is not text), /ask still answers: the answer
\* is built from the top retrieved result, no second generator call is made
\* and the reasoning opens with the mock marker; the reasoning of an answer
\* the generator produced never opens with it.
C5_FailureYieldsMarkedFallback ==
  /\ \A a \in 1..MaxAsks :
       LET h == inflight.asks[a]
       IN h.generator = "rejected" => h.pc = "mockTimer" /\ h.generatorCalls = 1
  /\ ask.generator = "rejected" =>
       /\ ask.pc \in {"mockTimer", "done"}
       /\ ask.generatorCalls = 1
       /\ ask.pc = "done" =>
            /\ response.route = "ask" /\ response.status = 200
            /\ response.reasoning.text = MockMarker
            /\ response.answer.topTitle = ask.documents[1].title
            /\ response.answer.topContent = ask.documents[1].content
            /\ response.answer.text \in {MockHowWhatOpening, MockGeneralOpening}
  /\ ask.generator = "resolved" =>
       /\ response.route = "ask" /\ response.status = 200
       /\ ask.generatorCalls = 1
       /\ IF response.answer.text = GeneratedText
          THEN response.reasoning.text # MockMarker
          ELSE /\ response.reasoning.text = MockMarker
               /\ response.answer.topTitle = ask.documents[1].title
               /\ response.answer.topContent = ask.documents[1].content
               /\ response.answer.text \in {MockHowWhatOpening, MockGeneralOpening}

\* C6: the documents an /ask handler hands to generateRAGResponse are the
\* results searchDocuments returned to it for its question, and the sources
\* of its response are, in order, the title, source and rounded relevance of
\* those documents, totalSources being their number.
C6_CitationsFromRetrievedSet ==
  /\ call.caller = "ask" =>
       /\ ask.documents = call.out.results
       /\ ask.question = call.query
  /\ response.route = "ask" =>
       /\ ask.pc = "done"
       /\ Len(response.sources) = Len(ask.documents)
       /\ response.totalSources = Len(ask.documents)
       /\ \A i \in 1..Len(response.sources) :
            /\ response.sources[i].title = ask.documents[i].title
            /\ response.sources[i].source = ask.documents[i].source
            /\ response.sources[i].relevance * 10 <= ask.documents[i].score + 5
            /\ response.sources[i].relevance * 10 > ask.documents[i].score - 5

\* an /ask response cites several results, one with a relevance that had to
\* be rounded
C6_Witness ==
  /\ response.route = "ask"
  /\ Len(response.sources) > 1
  /\ \E i \in 1..Len(response.sources) : ask.documents[i].score % 10 # 0

\* an /ask response cites, ahead of the document its retrieval scored by
\* vector, a document that was stored between the two index reads
C6_WitnessInterleaved ==
  /\ response.route = "ask"
  /\ ~apiKey
  /\ Len(response.sources) = 2
  /\ response.sources[1].relevance = 125
  /\ response.sources[2].relevance = 54

\* C7 (as claimed): once an /ask handler is waiting for the generator, an
\* /ask answer is eventually sent.
C7_AskEventuallyAnswers ==
  \A a \in 1..MaxAsks :
    (inflight.asks[a].pc = "generating") ~> (ask.pc = "done" /\ response.route = "ask")

\* C8: when the query embedding fails, searchDocuments does not reject; it
\* returns what keywordSearchOnly returns: the first `size` keyword hits of
\* the query with score min(_score / 10, 1).
C8_EmbeddingFailureFallsBackToKeyword ==
  Called /\ call.env.embed = "fail" =>
    /\ ~call.out.threw
    /\ call.out.path = "keywordOnly"
    /\ LET hits == KeywordHits(index, call.query, call.size)
       IN IF call.env.fallback = "ok"
          THEN /\ Len(Results) = Len(hits)
               /\ \A i \in 1..Len(hits) :
                    /\ Results[i].id = hits[i].id
                    /\ Results[i].score * 10 = Min(hits[i].score, 10000)
          ELSE Results = <<>>

\* the embedding failed and the call returned keyword hits, one of them with a
\* clamped score
C8_Witness ==
  /\ Called /\ call.env.embed = "fail"
  /\ Len(Results) > 1
  /\ \E i \in 1..Len(Results) : Results[i].score = One

\* the signals of a call: the vector signal fails when the embedding or the
\* match_all query fails, the keyword signal when every keyword query the call
\* issued failed
VectorSignalFailed(env) == env.embed = "fail" \/ env.allDocs = "fail"
KeywordSignalFailed(env) == env.keyword # "ok" /\ env.fallback # "ok"

\* C9 (as claimed): when the keyword query fails while the embedding and the
\* match_all query succeed, searchDocuments returns the ranked vector hits.
C9_KeywordFailureKeepsVectorHits ==
  Called /\ call.env.embed = "ok" /\ call.env.allDocs = "ok" /\ call.env.keyword = "fail" =>
    LET top == Slice(VectorResults(call.allDocs, call.query), call.size)
    IN /\ Len(Results) = Len(top)
       /\ \A i \in 1..Len(top) : Results[i].id = top[i].id

\* C10 (as claimed): searchDocuments rejects exactly when both signals failed.
C10_ErrorIffBothSignalsFail ==
  Called =>
    (call.out.threw <=> VectorSignalFailed(call.env) /\ KeywordSignalFailed(call.env))

\* the index held no document at each read the call made of it
ReadEmptyIndex ==
  /\ \A d \in DOMAIN call.allDocs : call.allDocs[d] = "absent"
  /\ \A d \in DOMAIN index : index[d] = "absent"

\* C11: searchDocuments on an index without documents returns [] and does
\* not reject, whether the hybrid search ran or the embedding or a query
\* failed.
C11_EmptyIndexGivesEmptyList ==
  Called /\ ReadEmptyIndex =>
    /\ ~call.out.threw
    /\ Results = <<>>

\* a hybrid search ran to its end on the empty index
C11_Witness ==
  /\ Hybrid
  /\ call.allDocs # NotRead
  /\ ReadEmptyIndex
  /\ call.env.embed = "ok"

\* a document stored between the match_all answer and the multi_match answer
\* of a search is returned on its keyword score alone
InterleavedWrite ==
  /\ Hybrid
  /\ \E i \in 1..Len(Results) :
       /\ call.allDocs[Results[i].id] = "absent"
       /\ index[Results[i].id] = "emb"
       /\ ~InVector(Results[i].id)

\* an embedding failure on the empty index went through keywordSearchOnly
C11_WitnessEmbedderFails ==
  /\ call.out.path = "keywordOnly"
  /\ ReadEmptyIndex
  /\ call.env.embed = "fail"

\* the fused score of document c in the results of a fusion
Scored(out, c) == c \in IdsOf(out.results)
ScoreIn(out, c) == out.results[CHOOSE i \in 1..Len(out.results) : out.results[i].id = c].score
AmongVectorCandidates(out, size, c) == c \in IdsOf(Slice(out.vectorResults, size))

\* C12 (as claimed): raising one document's similarity, or its keyword
\* score, everything else unchanged, never lowers that document's score.
C12_MonotoneInEachSignal ==
  op.name = "fusion" /\ op.stage = "done"
    /\ Scored(op.base, op.chunk) /\ Scored(op.after, op.chunk) =>
      ScoreIn(op.after, op.chunk) >= ScoreIn(op.base, op.chunk)

\* the raise moves a keyword hit into the top `size` vector candidates
C12_EntersCandidatesAsKeywordHit ==
  /\ op.signal = "vector"
  /\ ~AmongVectorCandidates(op.base, op.size, op.chunk)
  /\ AmongVectorCandidates(op.after, op.size, op.chunk)
  /\ op.chunk \in IdsOf(op.base.keywordResults)

\* C12 (amended): raising the keyword score never lowers the document's
\* score, and raising the similarity never lowers it unless the raise moves
\* the document, a keyword hit, into the top `size` vector candidates.
C12_MonotoneExceptOnEnteringCandidates ==
  op.name = "fusion" /\ op.stage = "done"
    /\ Scored(op.base, op.chunk) /\ Scored(op.after, op.chunk)
    /\ ~C12_EntersCandidatesAsKeywordHit =>
      ScoreIn(op.after, op.chunk) >= ScoreIn(op.base, op.chunk)

\* a raised similarity of a dual-signal candidate raised its score
C12_Witness ==
  /\ op.name = "fusion" /\ op.stage = "done"
  /\ op.signal = "vector"
  /\ Scored(op.base, op.chunk) /\ Scored(op.after, op.chunk)
  /\ AmongVectorCandidates(op.base, op.size, op.chunk)
  /\ op.chunk \in IdsOf(op.base.keywordResults)
  /\ ScoreIn(op.after, op.chunk) > ScoreIn(op.base, op.chunk)

\* C13: an initialize call that is not the first throws and leaves the
\* pipeline, the loading of the first call and the attempted flag as they
\* were, whether the first call succeeded, failed or is still loading.
C13_RepeatedInitializeThrows ==
  op.name = "initialize" /\ op.attemptedBefore =>
    /\ op.threw
    /\ op.error = AlreadyAttemptedError
    /\ embeddingPipeline = op.pipelineBefore
    /\ loading = op.loadingBefore
    /\ initializationAttempted

\* a second call while the first is still loading
C13_Witness == op.name = "initialize" /\ op.attemptedBefore /\ op.loadingBefore
\* a second call after the first succeeded, and after it failed
C13_WitnessAfterSuccess ==
  op.name = "initialize" /\ op.attemptedBefore /\ ~op.loadingBefore /\ op.pipelineBefore = "loaded"
C13_WitnessAfterFailure ==
  op.name = "initialize" /\ op.attemptedBefore /\ ~op.loadingBefore /\ op.pipelineBefore = "null"

\* C14 (as claimed): generateEmbedding on an empty or whitespace-only text
\* throws the empty-text error, returns no vector and does not call the model.
C14_EmptyTextIsInvalidInput ==
  op.name = "generateEmbedding" /\ trim(op.text) = <<>> =>
    /\ op.out.threw
    /\ op.out.error = EmptyTextError
    /\ ~op.out.vector
    /\ op.out.modelCalls = 0

\* C14 (amended): generateEmbedding on an empty or whitespace-only text
\* throws, returns no vector and does not call the model; the error is the
\* empty-text error when the model is loaded and the not-initialized error
\* when it is not.
C14_EmptyTextThrowsWithoutModelCall ==
  op.name = "generateEmbedding" /\ trim(op.text) = <<>> =>
    /\ op.out.threw
    /\ op.out.error = IF op.pipeline = "loaded" THEN EmptyTextError ELSE NotInitializedError
    /\ ~op.out.vector
    /\ op.out.modelCalls = 0

\* a whitespace-only text given to the loaded model
C14_Witness ==
  /\ op.name = "generateEmbedding"
  /\ Len(op.text) > 0
  /\ trim(op.text) = <<>>
  /\ op.pipeline = "loaded"

\* the queries whose keyword search matches document d
MatchingQueries(d) == {q \in Queries : KeywordRawScore(q, d) > 0}

\* C15: an indexDocument call whose embedding was not produced (service not
\* initialized, or generateEmbedding threw) and whose index request succeeded
\* does not throw, stores the document without embedding, and the document
\* is among the results of every keyword search that matches it, run on its
\* own or by searchDocuments.
C15_UpsertSurvivesEmbeddingFailure ==
  op.name = "indexDocument" /\ ~op.embedded /\ op.stored =>
    /\ ~op.threw
    /\ index[op.doc] = "noemb"
    /\ \A q \in MatchingQueries(op.doc) :
         /\ op.doc \in IdsOf(keywordSearchOnly(index, q, DefaultSize, TRUE))
         /\ op.doc \in IdsOf(searchDocuments(index, index, embeddingPipeline, q, DefaultSize,
                                             IF embeddingPipeline = "loaded"
                                             THEN Env("ok", "ok", "ok", "unused")
                                             ELSE Env("fail", "unused", "unused", "ok")).results)

\* generateEmbedding threw inside indexDocument
C15_Witness ==
  /\ op.name = "indexDocument" /\ ~op.embedded /\ op.stored
  /\ embeddingPipeline = "loaded"
  /\ MatchingQueries(op.doc) # {}
\* indexDocument before the model is loaded
C15_WitnessNotReady ==
  /\ op.name = "indexDocument" /\ ~op.embedded /\ op.stored
  /\ embeddingPipeline = "null"
  /\ MatchingQueries(op.doc) # {}

Chunked == op.name \in {"chunkText", "processText"} /\ op.stage = "done" /\ ~op.threw

\* C16: no chunk returned by chunkText is longer than maxChunkSize.
C16_NoChunkLongerThanMax ==
  Chunked => \A i \in 1..Len(op.chunks) : Len(op.chunks[i]) <= op.maxChunkSize

\* C17: for a non-empty text, given to chunkText directly or produced from a
\* file that processText accepts, chunkText returns at least one chunk and
\* no chunk that is empty or only whitespace.
C17_NoBlankChunk ==
  Chunked /\ Len(op.text) > 0 =>
    /\ Len(op.chunks) > 0
    /\ \A i \in 1..Len(op.chunks) : Len(trim(op.chunks[i])) > 0

\* the characters of a text other than whitespace, in order
NonWhitespace(s) == SelectSeq(s, LAMBDA c : ~IsWhitespace(c))

\* C18: the chunks returned by chunkText, concatenated in order, are the
\* text it was given, up to the whitespace it split and trimmed on.
C18_ChunksReconstructText ==
  op.name = "chunkText" /\ op.stage = "done" =>
    NonWhitespace(Flatten(op.chunks)) = NonWhitespace(op.text)

\* C19: an indexDocument call for an id that is already stored (the same
\* document again) leaves the entry under that id as it was.
C19_ReindexLeavesEntryUnchanged ==
  op.name = "indexDocument" /\ op.before # "absent" => index[op.doc] = op.before

\* the stored documents that carry an embedding
WithEmbedding == {d \in DOMAIN index : index[d] = "emb"}
SimilarityToQuery(d) == cosineSimilarity(QueryEmbedding(call.query), DocEmbedding(d))

\* C20: the vector candidates that enter the merge are the call.size
\* documents most similar to the query among all stored documents with an
\* embedding: as many as there are, up to call.size, and none of the others
\* is more similar than a candidate.
C20_CandidatesAreMostSimilarOfAll ==
  Hybrid =>
    /\ Len(TopVector) = Min(call.size, Cardinality(WithEmbedding))
    /\ \A d \in WithEmbedding \ IdsOf(TopVector) :
         \A i \in 1..Len(TopVector) : TopVector[i].score >= SimilarityToQuery(d)

\* C21: the list searchDocuments returns holds no id twice, on the hybrid
\* path and on the keyword-only path.
C21_ResultIdsAreUnique ==
  Called => \A i, j \in 1..Len(Results) : Results[i].id = Results[j].id => i = j

\* a hybrid call that returned a document hit by both signals
C21_Witness ==
  /\ Hybrid
  /\ \E i \in 1..Len(Results) : InVector(Results[i].id) /\ InKeyword(Results[i].id)

\* a keyword-only call that returned more than one document
C21_WitnessKeywordOnly == call.out.path = "keywordOnly" /\ Len(Results) > 1

\* the entries of the merge map of the latest hybrid call
FusedCandidates == CombinedResults(call.out.vectorResults, call.out.keywordResults, call.size)

\* C22: the returned list is ordered by non-increasing score, has at most
\* `size` entries, and on the hybrid path no merged entry that was left out
\* has a score above that of a returned entry.
C22_SortedAndTruncated ==
  Called =>
    /\ Len(Results) <= call.size
    /\ \A i, j \in 1..Len(Results) : i < j => Results[i].score >= Results[j].score
    /\ Hybrid =>
         /\ Len(Results) = Min(call.size, Len(FusedCandidates))
         /\ \A c \in 1..Len(FusedCandidates) :
              FusedCandidates[c].id \notin IdsOf(Results) =>
                \A i \in 1..Len(Results) : Results[i].score >= FusedCandidates[c].score

\* a hybrid call with more merged entries than it may return
C22_Witness == Hybrid /\ Len(FusedCandidates) > call.size /\ Len(Results) = call.size

\* the entries the index holds for the document stored under id
EntriesFor(id) == {i \in DOMAIN index : i = id /\ index[i] # "absent"}

\* C23: after an upload or a scrape answers 201 with chunks = n, the index
\* holds n entries for the document, each with an embedding.
C23_OneEntryPerChunk ==
  op.name \in {"upload", "scrape"} /\ op.status = Created =>
    /\ Cardinality(EntriesFor(op.id)) = op.chunks
    /\ \A i \in EntriesFor(op.id) : index[i] = "emb"

\* C27: an ingestion that answers 201 stored its document under an id that
\* held no document, so every successful ingestion adds a document.
C27_IngestionNeverOverwrites ==
  op.name \in {"documents", "upload", "scrape"} /\ op.status = Created =>
    op.before = "absent"

\* a route handler is running or has just answered
HandlerRan ==
  \/ \E s \in 1..MaxSearches : inflight.calls[s].pc # "idle"
  \/ \E w \in 1..MaxWrites : inflight.writes[w].pc # "idle"
  \/ \E a \in 1..MaxAsks : inflight.asks[a].pc # "idle"
  \/ inflight.hung > 0
  \/ ask.pc # "idle"
  \/ response.route # "none"
  \/ Called
  \/ op.name \in {"documents", "scrape", "upload"}

\* a handler is waiting for generateEmbedding, or got its vector
EmbeddingDispatched ==
  \/ \E s \in 1..MaxSearches : inflight.calls[s].pc \in {"embedding", "allDocs", "keyword"}
  \/ \E w \in 1..MaxWrites :
       \/ inflight.writes[w].pc = "embedding"
       \/ inflight.writes[w].pc = "indexing" /\ inflight.writes[w].pipeline = "loaded"
  \/ call.env.embed = "ok"
  \/ op.name \in {"documents", "scrape", "upload"} /\ op.embedded

C24_Startup ==
  /\ HandlerRan => server = "listening"
  /\ EmbeddingDispatched => embeddingPipeline = "loaded" /\ ~loading
  /\ server = "listening" => initializationAttempted /\ embeddingPipeline = "loaded" /\ ~loading
  /\ loading => server = "initializing"
  /\ (initializationAttempted /\ ~loading /\ embeddingPipeline = "null") => server = "exited"

C24_StartupStep ==
  /\ (~loading /\ loading') => ~initializationAttempted
  /\ (loading /\ ~loading') => server = "initializing" /\ server' # "initializing"
  /\ server = "exited" => server' = "exited"

\* C24: no handler (search, ask, ingestion) runs, and none asks for an
\* embedding, before initialize has completed; initialize starts and
\* completes at most once; the server listens only after initialize
\* succeeded and never after it failed.
C24_InitializeBeforeHandlers == [](C24_Startup) /\ [][C24_StartupStep]_vars

\* an /ask handler waits for the embedding of its question while an
\* ingestion handler waits for the embedding of its document
C24_Witness ==
  /\ server = "listening"
  /\ \E s \in 1..MaxSearches :
       inflight.calls[s].caller = "ask" /\ inflight.calls[s].pc = "embedding"
  /\ \E a \in 1..MaxAsks : inflight.asks[a].pc = "searching"
  /\ \E w \in 1..MaxWrites :
       inflight.writes[w].caller # "direct" /\ inflight.writes[w].pc = "embedding"

\* C25: the excerpt of a fused result whose keyword hit came with
\* highlighted spans is the join of those spans (with or without the mark
\* tags), whether or not the chunk is also a vector candidate.
C25_HighlightedSpansArePreferred ==
  op.name = "fuse" /\ op.spans # <<>> =>
    op.excerpt \in {JoinSpans(op.spans), StripTags(JoinSpans(op.spans))}

\* the distinct query words a window contains
WindowMatchesDistinct(section, queryWords) ==
  Cardinality({queryWords[w] : w \in {w \in 1..Len(queryWords) : includes(section, queryWords[w])}})

\* the excerpt cut at the earliest window with the most distinct query terms
DistinctBestExcerpt(content, searchQuery, maxLength) ==
  LET cleanContent == StripTags(content)
      queryWords == QueryWords(searchQuery)
      contentLower == toLowerCase(cleanContent)
      offsets == WindowOffsets(Len(cleanContent), maxLength)
      matches == [i \in offsets |->
                    WindowMatchesDistinct(substring(contentLower, i, i + maxLength), queryWords)]
      best == {i \in offsets : \A k \in offsets : matches[k] <= matches[i]}
  IN ExcerptAt(content, cleanContent, CHOOSE i \in best : \A k \in best : i <= k, maxLength)

\* C26: for a text longer than maxLength the excerpt is cut at the window
\* (offsets 0, 50, 100, ...) with the most distinct query terms, the earliest
\* of them on ties; a query term that is repeated counts once.
C26_BestWindowByDistinctTerms ==
  op.name = "generateExcerpt" /\ Len(op.content) > ExcerptMaxLength =>
    op.excerpt = DistinctBestExcerpt(op.content, op.query, ExcerptMaxLength)

\* the ids of the scored documents ranked below the top size by similarity
BelowTopVector ==
  {call.out.vectorResults[i].id : i \in (call.size + 1)..Len(call.out.vectorResults)}

\* C28: only the size most similar scored documents enter the merge; a
\* document ranked below them is fused only when the keyword search matched
\* it, and then with the keyword-only score 0.5 * (_score / 10).
C28_OnlyTopSizeVectorCandidatesFuse ==
  Hybrid =>
    /\ \A c \in 1..Len(FusedCandidates) :
         InVector(FusedCandidates[c].id) \/ InKeyword(FusedCandidates[c].id)
    /\ \A c \in 1..Len(FusedCandidates) :
         FusedCandidates[c].id \in BelowTopVector =>
           FusedCandidates[c].score = KeywordOnlyScore(KeywordScoreOf(FusedCandidates[c].id))
    /\ \A i \in 1..Len(Results) :
         Results[i].id \in BelowTopVector =>
           /\ InKeyword(Results[i].id)
           /\ Results[i].score = KeywordOnlyScore(KeywordScoreOf(Results[i].id))

C28_Witness ==
  /\ Hybrid
  /\ \E i \in 1..Len(Results) : Results[i].id \in BelowTopVector /\ InKeyword(Results[i].id)

\* a document fetched for vector scoring carries an embedding whose length
\* differs from the query embedding's
MismatchFetched ==
  \E i \in 1..Len(AllDocsHits(call.allDocs)) :
    LET d == AllDocsHits(call.allDocs)[i]
    IN /\ HasEmbedding(call.allDocs[d])
       /\ Len(StoredEmbedding(call.allDocs[d], d)) # Len(QueryEmbedding(call.query))

\* C29: when a document the match_all request fetched carries an embedding
\* of another length than the query's, the searchDocuments call returns what
\* keywordSearchOnly returns, with no vector result from any document.
C29_MismatchAbandonsHybrid ==
  Called /\ MismatchFetched =>
    /\ call.out.path = "keywordOnly"
    /\ call.out.vectorResults = <<>>
    /\ Results = keywordSearchOnly(index, call.query, call.size, call.env.fallback = "ok")

C29_Witness ==
  /\ Called /\ MismatchFetched
  /\ call.env = Env("ok", "ok", "ok", "ok")
  /\ \E d \in DocIds : call.allDocs[d] = "emb"
  /\ Len(Results) > 0

\* C30: every result of searchDocumentsWithFilters passes the technology,
\* file type and date range filters of the call, on the filtered path and on
\* the path taken when the filtered search fails.
C30_ResultsPassFilters ==
  op.name = "searchDocumentsWithFilters" =>
    \A i \in 1..Len(op.results) :
      PassesFilters(op.results[i].id, op.filters, op.technologyKeyword)

====
